---- MODULE Spec2Model ----
(***************************************************************************)
(* Livestream orchestrator: webhook ingestion, session lifecycle and       *)
(* reconciliation.                                                         *)
(*                                                                         *)
(* The server is one Node.js process: every `await` of the source is a     *)
(* point where another request handler, queue job or timer callback may    *)
(* run, so each action below is the code between two awaits of one         *)
(* handler.  A lookup of a session by its room name is folded into the     *)
(* step that follows it: room names are unique and never change, and a     *)
(* notification about a room is only sent once the room exists in the      *)
(* media service, which is after the session row was inserted.             *)
(***************************************************************************)
EXTENDS Integers, Sequences, FiniteSets, TLC

\* ------------------------------------------------------------------ bounds

\* Participant rows the participants table may hold.
MaxRows == 2

\* How often the queue hands one job to a second worker after its lock lapsed.
MaxStalled == 1

\* The clock advances in steps of TickMs up to MaxTime.
TickMs == 2500
MaxTime == 10000
\* The longest room name a create request proposes.
MaxNameLen == 3

\* attempts: 3 of the queue's defaultJobOptions.
MaxHours == 26
WEBHOOK_TTL_HOURS == 24
MaxAttempts == 3

\* StateService: the throttle of viewer_count_update; the relative threshold
\* 0.1 is kept in percent.
VIEWER_COUNT_THROTTLE_MS == 5000
VIEWER_COUNT_THRESHOLD_PERCENT == 10
VIEWER_COUNT_THRESHOLD_ABSOLUTE == 5

\* ------------------------------------------------------------ value spaces

NULL == "null"

Streams == {"s1", "s2"}
Users == {"u1", "u2"}
Sids == {"PA_1", "PA_2", "PA_3"}
Workers == {"w1", "w2"}
Calls == {"c1", "c2"}
Conns == {"k1", "k2"}

\* The notifications the media service may send: webhook id -> payload.
HookIds == {"rs1", "rf1", "rf2", "pj1", "pl1", "pj2", "pl2", "pj3", "pl3"}

Payload(h) ==
    CASE h = "rs1" -> [event |-> "room_started", room |-> "s1", identity |-> NULL, sid |-> NULL]
      [] h = "rf1" -> [event |-> "room_finished", room |-> "s1", identity |-> NULL, sid |-> NULL]
      [] h = "rf2" -> [event |-> "room_finished", room |-> "s1", identity |-> NULL, sid |-> NULL]
      [] h = "pj1" -> [event |-> "participant_joined", room |-> "s1", identity |-> "u1", sid |-> "PA_1"]
      [] h = "pl1" -> [event |-> "participant_left", room |-> "s1", identity |-> "u1", sid |-> "PA_1"]
      [] h = "pj2" -> [event |-> "participant_joined", room |-> "s1", identity |-> "u1", sid |-> "PA_2"]
      [] h = "pl2" -> [event |-> "participant_left", room |-> "s1", identity |-> "u1", sid |-> "PA_2"]
      [] h = "pj3" -> [event |-> "participant_joined", room |-> "s1", identity |-> "u2", sid |-> "PA_3"]
      [] h = "pl3" -> [event |-> "participant_left", room |-> "s1", identity |-> "u2", sid |-> "PA_3"]

\* The media service's participant sessions: whose they are.
SidUser(sid) == IF sid = "PA_3" THEN "u2" ELSE "u1"
SidRoom(sid) == "s1"

\* ---------------------------------------------------------------- state

VARIABLES
    livestreams,    \* Durable Store: livestreams table, keyed by room name
    participants,   \* Durable Store: participants table, in joinedAt order
    webhookEvents,  \* Durable Store: webhook_events ledger (ids by processedAt)
    processedAt,    \* Durable Store: the hours at which a row of each id was inserted
    hour,           \* the clock of the ledger's timestamps, in hours
    deletedCount,   \* what the last runCleanup returned
    streamState,    \* Redis: stream:state:{id}
    lkRoom,         \* media service: each room none / open / closed
    lkSid,          \* media service: each participant session none / connected / gone
    jobs,           \* queue: one job per webhook id
    wk,             \* queue workers running processWebhook
    api,            \* HTTP requests running LivestreamService methods
    sw,             \* the reconciliation job
    invoked,        \* history: calls of handleWebhookEvent per webhook id
    applied,        \* history: normal returns of handleWebhookEvent per id
    now,            \* Date.now() in milliseconds
    viewerCountThrottles,  \* StateService: last viewer-count broadcast per session
    updates,        \* history: the calls of checkAndBroadcastViewerCount
    published,      \* history: the events handed to redisPubClient.publish
    inbox,          \* Redis Pub/Sub: messages on their way to the subscriber client
    sseConnections, \* StateService: the connections of each session
    subscribedChannels,    \* StateService: the channels it has subscribed
    redisSub,       \* Redis Pub/Sub: the channels Redis serves to the subscriber client
    unsubscribing,  \* unsubscribe calls per channel whose reply is awaited
    sse,            \* the subscribers' HTTP connections and what was written to them
    http            \* history: the answers of POST /webhooks/livekit

ledgerVars == <<webhookEvents, processedAt, hour, deletedCount>>
dbVars == <<livestreams, participants, ledgerVars>>
redisVars == <<streamState>>
queueVars == <<jobs, wk, invoked, applied>>
lkVars == <<lkRoom, lkSid>>
throttleVars == <<viewerCountThrottles, updates>>
pubVars == <<throttleVars, published, inbox>>
sseVars == <<sseConnections, subscribedChannels, redisSub, unsubscribing, sse>>
outVars == <<now, pubVars, sseVars, http>>
vars == <<livestreams, participants, webhookEvents, processedAt, hour, deletedCount, streamState, lkRoom, lkSid,
          jobs, wk, api, sw, invoked, applied, now, viewerCountThrottles,
          updates, published, inbox, sseConnections, subscribedChannels, redisSub,
          unsubscribing, sse, http>>

\* ------------------------------------------------------------ room names

\* The characters of a proposed room name: lower and upper case letters,
\* digits, the two separators, white space and a character that is none of
\* these.
Lower == {"a", "s"}
Digits == {"1", "2"}
Separators == {"-", "_"}
Chars == Lower \cup Digits \cup Separators \cup {"A", " ", "!"}

RECURSIVE trimStart(_)
trimStart(str) ==
    IF str # <<>> /\ Head(str) = " " THEN trimStart(Tail(str)) ELSE str

RECURSIVE trimEnd(_)
trimEnd(str) ==
    IF str # <<>> /\ str[Len(str)] = " "
    THEN trimEnd(SubSeq(str, 1, Len(str) - 1))
    ELSE str

\* String.prototype.trim.
trim(str) == trimEnd(trimStart(str))

\* String.prototype.toLowerCase.
toLowerCase(str) == [i \in 1 .. Len(str) |-> IF str[i] = "A" THEN "a" ELSE str[i]]

\* replace(/[^a-z0-9-_]/g, '-').
replaceOthers(str) ==
    [i \in 1 .. Len(str) |->
        IF str[i] \in Lower \cup Digits \cup Separators THEN str[i] ELSE "-"]

\* replace(/-+/g, '-'): a hyphen that follows a hyphen is dropped.
RECURSIVE collapseHyphens(_)
collapseHyphens(str) ==
    IF Len(str) < 2 THEN str
    ELSE IF str[1] = "-" /\ str[2] = "-" THEN collapseHyphens(Tail(str))
    ELSE <<Head(str)>> \o collapseHyphens(Tail(str))

\* replace(/^-|-$/g, ''): one hyphen at the start and one at the end.
stripHyphens(str) ==
    LET a == IF str # <<>> /\ Head(str) = "-" THEN Tail(str) ELSE str
    IN IF a # <<>> /\ a[Len(a)] = "-" THEN SubSeq(a, 1, Len(a) - 1) ELSE a

sanitizeRoomName(roomName) ==
    stripHyphens(collapseHyphens(replaceOthers(toLowerCase(trim(roomName)))))

\* validateCreateRequest, for a request whose title, creator and limits are
\* valid: the room name is required.
validateCreateRequest(roomName) ==
    IF roomName = <<>> \/ trim(roomName) = <<>> THEN "ValidationError" ELSE "ok"

\* The room name the requests for session s propose when the name is not
\* the subject.
ProposedName(s) == IF s = "s1" THEN <<"s", "1">> ELSE <<"s", "2">>

\* The row createLivestream inserts.
NewLivestream(u, roomName) ==
    [status |-> "SCHEDULED", createdBy |-> u,
     roomName |-> sanitizeRoomName(roomName)]

\* ------------------------------------------------------------ Durable Store

NoLivestream == [status |-> "NONE", createdBy |-> NULL, roomName |-> NULL]

\* prisma.livestream.update({ where: { id }, data }): no condition on the
\* current status.
updateLivestream(ls, id, status) ==
    [ls EXCEPT ![id].status = status]

NewParticipant(s, u, role) ==
    [livestreamId |-> s, userId |-> u, role |-> role, status |-> "JOINED", sid |-> NULL]

\* prisma.participant.create: the table has a primary key on id and a unique
\* index on livekitParticipantSid only.
createParticipant(rows, s, u, role) ==
    Append(rows, NewParticipant(s, u, role))

\* The rows getActiveParticipant's findFirst may return (no orderBy).
getActiveParticipant(rows, u, s) ==
    {i \in DOMAIN rows :
        /\ rows[i].userId = u
        /\ rows[i].livestreamId = s
        /\ rows[i].status = "JOINED"}

SetMax(S) == CHOOSE x \in S : \A y \in S : y <= x

\* findFirst of updateParticipantWithLiveKitSids: the most recent JOINED row
\* of the user in the session whose sid is still null; 0 when there is none.
findPendingParticipant(rows, u, s) ==
    LET cand == {i \in DOMAIN rows :
                    /\ rows[i].userId = u
                    /\ rows[i].livestreamId = s
                    /\ rows[i].status = "JOINED"
                    /\ rows[i].sid = NULL}
    IN IF cand = {} THEN 0 ELSE SetMax(cand)

\* The unique index participants_livekitParticipantSid_key.
SidTaken(rows, i, sid) ==
    \E j \in DOMAIN rows : j # i /\ rows[j].sid = sid

\* A lookup by user and session, as the deprecated markParticipantAsLeft
\* selects its rows, in place of the lookup by sid.
findBySid_ByUser(rows, sid) ==
    LET cand == {i \in DOMAIN rows :
                    /\ rows[i].userId = SidUser(sid)
                    /\ rows[i].livestreamId = SidRoom(sid)
                    /\ rows[i].status = "JOINED"}
    IN IF cand = {} THEN 0 ELSE SetMax(cand)

\* findUnique({ where: { livekitParticipantSid } }) of
\* markParticipantAsLeftBySid; 0 when there is none.
findBySid(rows, sid) ==
    LET cand == {i \in DOMAIN rows : rows[i].sid = sid}
    IN IF cand = {} THEN 0 ELSE CHOOSE i \in cand : TRUE

\* tx.participant.update({ where: { id }, data: { status: 'LEFT' } }).
markLeft(rows, i) ==
    [rows EXCEPT ![i].status = "LEFT"]

\* listParticipants({ livestreamId, status: 'JOINED' }), joinedAt descending.
RECURSIVE joinedDesc(_, _, _)
joinedDesc(rows, s, i) ==
    IF i = 0 THEN <<>>
    ELSE IF rows[i].livestreamId = s /\ rows[i].status = "JOINED"
         THEN <<i>> \o joinedDesc(rows, s, i - 1)
         ELSE joinedDesc(rows, s, i - 1)

listJoined(rows, s) == joinedDesc(rows, s, Len(rows))

\* ------------------------------------------------------------------ Redis

NoState ==
    [status |-> "NONE", participants |-> <<>>, viewerCount |-> 0,
     totalViewers |-> 0, peakViewerCount |-> 0]

\* StateService.initializeState
initializeState ==
    [status |-> "LIVE", participants |-> <<>>, viewerCount |-> 0,
     totalViewers |-> 0, peakViewerCount |-> 0]

Includes(seq, x) == \E i \in DOMAIN seq : seq[i] = x

Without(seq, x) == SelectSeq(seq, LAMBDA y : y # x)

\* The state handleParticipantJoined writes for a user not yet listed.
stateJoined(st, u) ==
    LET ps == Append(st.participants, u)
    IN [st EXCEPT !.participants = ps,
                  !.viewerCount = Len(ps),
                  !.totalViewers = st.totalViewers + 1,
                  !.peakViewerCount =
                      IF Len(ps) > st.peakViewerCount THEN Len(ps)
                      ELSE st.peakViewerCount]

\* A leave that takes the user off the list and keeps the count.
stateLeft_KeepsCount(st, u) ==
    LET ps == Without(st.participants, u)
    IN [st EXCEPT !.participants = ps]

\* The state handleParticipantLeft writes for a listed user.
stateLeft(st, u) ==
    LET ps == Without(st.participants, u)
    IN [st EXCEPT !.participants = ps, !.viewerCount = Len(ps)]

\* The state handleRoomEnded writes.
stateEnded(st) == [st EXCEPT !.status = "ENDED"]

\* ----------------------------------------------------------- State Fan-out

Abs(x) == IF x < 0 THEN 0 - x ELSE x

\* A throttle that asks for the change of the count only.
shouldBroadcast_NoWait(th, t, count) ==
    LET countDelta == Abs(count - th.lastBroadcastCount)
        percentReached ==
            IF th.lastBroadcastCount > 0
            THEN 100 * countDelta >= VIEWER_COUNT_THRESHOLD_PERCENT * th.lastBroadcastCount
            ELSE TRUE
    IN \/ ~th.has
       \/ percentReached
       \/ countDelta >= VIEWER_COUNT_THRESHOLD_ABSOLUTE

\* checkAndBroadcastViewerCount: shouldBroadcast for the throttle entry th, the
\* time t and the count; without an entry the update is always sent.
\* countDelta / lastBroadcastCount >= 0.1 is 100 * countDelta >= 10 * last.
shouldBroadcast(th, t, count) ==
    LET countDelta == Abs(count - th.lastBroadcastCount)
        percentReached ==
            IF th.lastBroadcastCount > 0
            THEN 100 * countDelta >= VIEWER_COUNT_THRESHOLD_PERCENT * th.lastBroadcastCount
            ELSE TRUE
    IN \/ ~th.has
       \/ /\ t - th.lastBroadcastTime >= VIEWER_COUNT_THROTTLE_MS
          /\ (percentReached \/ countDelta >= VIEWER_COUNT_THRESHOLD_ABSOLUTE)

\* broadcastStateEvent: redisPubClient.publish on the session's channel; Redis
\* passes the message on when the subscriber client is subscribed to it.
broadcastStateEvent(s, type, st) ==
    /\ published' = Append(published, [ls |-> s, type |-> type,
                                       count |-> st.viewerCount, time |-> now])
    /\ inbox' = IF s \in redisSub THEN Append(inbox, [ls |-> s, type |-> type])
                ELSE inbox

\* A first update that writes the entry and sends nothing.
checkAndBroadcastViewerCount_SilentFirst(s, st) ==
    LET send == shouldBroadcast(viewerCountThrottles[s], now, st.viewerCount)
        quiet == ~viewerCountThrottles[s].has
    IN /\ updates' = Append(updates, [ls |-> s, count |-> st.viewerCount,
                                      time |-> now, sent |-> send /\ ~quiet])
       /\ IF send
          THEN /\ viewerCountThrottles' =
                      [viewerCountThrottles EXCEPT ![s] =
                          [has |-> TRUE, lastBroadcastCount |-> st.viewerCount,
                           lastBroadcastTime |-> now]]
               /\ IF quiet THEN UNCHANGED <<published, inbox>>
                  ELSE broadcastStateEvent(s, "viewer_count_update", st)
          ELSE UNCHANGED <<viewerCountThrottles, published, inbox>>

\* checkAndBroadcastViewerCount: the entry is written before the publish.
checkAndBroadcastViewerCount(s, st) ==
    LET send == shouldBroadcast(viewerCountThrottles[s], now, st.viewerCount)
    IN /\ updates' = Append(updates, [ls |-> s, count |-> st.viewerCount,
                                      time |-> now, sent |-> send])
       /\ IF send
          THEN /\ viewerCountThrottles' =
                      [viewerCountThrottles EXCEPT ![s] =
                          [has |-> TRUE, lastBroadcastCount |-> st.viewerCount,
                           lastBroadcastTime |-> now]]
               /\ broadcastStateEvent(s, "viewer_count_update", st)
          ELSE UNCHANGED <<viewerCountThrottles, published, inbox>>

\* sendSSEEvent to every connection of ks: a write to a response that was
\* ended is lost.
sendAll(conns, ks, type) ==
    [k \in Conns |->
        IF Includes(ks, k) /\ conns[k].open
        THEN [conns[k] EXCEPT !.out = Append(@, type)]
        ELSE conns[k]]

\* closeConnectionsForStream: res.end() on every connection of the session,
\* the list is deleted, and unsubscribeFromRedisChannel is called without
\* await: it sends UNSUBSCRIBE when the channel is in subscribedChannels and
\* removes it from the set once the reply is there.
closeConnectionsForStream(s) ==
    IF sseConnections[s] = <<>> THEN UNCHANGED sseVars
    ELSE /\ sse' = [k \in Conns |->
                        IF Includes(sseConnections[s], k)
                        THEN [sse[k] EXCEPT !.open = FALSE, !.ended = TRUE]
                        ELSE sse[k]]
         /\ sseConnections' = [sseConnections EXCEPT ![s] = <<>>]
         /\ IF s \in subscribedChannels
            THEN /\ redisSub' = redisSub \ {s}
                 /\ unsubscribing' = [unsubscribing EXCEPT ![s] = @ + 1]
            ELSE UNCHANGED <<redisSub, unsubscribing>>
         /\ UNCHANGED subscribedChannels

\* ------------------------------------------------------------------ Init

IdleCall == [op |-> "none", pc |-> "idle", ls |-> NULL, user |-> NULL,
             role |-> NULL, sid |-> NULL, row |-> 0, st |-> NoState, res |-> NULL]

\* listed is the handler's activeParticipants (row ids), sids what is left
\* of its loop.
IdleWorker == [pc |-> "idle", job |-> NULL, row |-> 0, listed |-> <<>>,
               sids |-> <<>>, st |-> NoState]

\* live, rooms and ended are kept after the run: what the sweep listed and
\* which sessions it set to ENDED.
IdleSweep == [pc |-> "idle", live |-> {}, rooms |-> {}, stale |-> {}, cur |-> NULL,
              listed |-> <<>>, sids |-> <<>>, row |-> 0, st |-> NoState,
              ended |-> {}, errors |-> 0, failed |-> {}, fatal |-> FALSE]

\* No entry of the session in viewerCountThrottles.
NoThrottle == [has |-> FALSE, lastBroadcastCount |-> 0, lastBroadcastTime |-> 0]

\* A connection nobody has opened; out is what was written to the response.
\* open: the client is connected and the response was not ended; ended: the
\* server called res.end(); at: how many events had been published when the
\* connection was pushed to the list of its session.
NoConnection == [pc |-> "none", ls |-> NULL, open |-> FALSE, ended |-> FALSE,
                 at |-> 0, out |-> <<>>]

NoJob == [state |-> "none", attemptsMade |-> 0, stalled |-> 0, owner |-> NULL]

Init ==
    /\ livestreams = [s \in Streams |-> NoLivestream]
    /\ participants = <<>>
    /\ webhookEvents = <<>>
    /\ processedAt = [h \in HookIds |-> <<>>]
    /\ hour = 0
    /\ deletedCount = 0
    /\ streamState = [s \in Streams |-> NoState]
    /\ lkRoom = [s \in Streams |-> "none"]
    /\ lkSid = [t \in Sids |-> "none"]
    /\ jobs = [h \in HookIds |-> NoJob]
    /\ wk = [w \in Workers |-> IdleWorker]
    /\ api = [c \in Calls |-> IdleCall]
    /\ sw = IdleSweep
    /\ invoked = [h \in HookIds |-> 0]
    /\ applied = [h \in HookIds |-> 0]
    /\ now = 0
    /\ viewerCountThrottles = [s \in Streams |-> NoThrottle]
    /\ updates = <<>>
    /\ published = <<>>
    /\ inbox = <<>>
    /\ sseConnections = [s \in Streams |-> <<>>]
    /\ subscribedChannels = {}
    /\ redisSub = {}
    /\ unsubscribing = [s \in Streams |-> 0]
    /\ sse = [k \in Conns |-> NoConnection]
    /\ http = {}

\* The viewers of session s1 that joined before this process started: their
\* ids are in the state Redis keeps, while the StateService of the new
\* process starts with empty maps.
Audience == <<"a01", "a02", "a03", "a04", "a05", "a06", "a07", "a08", "a09",
              "a10", "a11", "a12">>
AudienceSizes == {0, 9, 11}

\* The process starts while session s1 of user u1 is LIVE with n earlier
\* viewers in its state; the rows of these viewers are left out, no action
\* of the specification that starts here reads them.
InitThrottle ==
    /\ livestreams = [s \in Streams |->
            IF s = "s1" THEN [status |-> "LIVE", createdBy |-> "u1",
                               roomName |-> sanitizeRoomName(ProposedName("s1"))]
            ELSE NoLivestream]
    /\ participants = <<>>
    /\ webhookEvents = <<>>
    /\ processedAt = [h \in HookIds |-> <<>>]
    /\ hour = 0
    /\ deletedCount = 0
    /\ \E n \in AudienceSizes :
          streamState = [s \in Streams |->
            IF s = "s1"
            THEN [status |-> "LIVE", participants |-> SubSeq(Audience, 1, n),
                  viewerCount |-> n, totalViewers |-> n, peakViewerCount |-> n]
            ELSE NoState]
    /\ lkRoom = [s \in Streams |-> IF s = "s1" THEN "open" ELSE "none"]
    /\ lkSid = [t \in Sids |-> "none"]
    /\ jobs = [h \in HookIds |-> NoJob]
    /\ wk = [w \in Workers |-> IdleWorker]
    /\ api = [c \in Calls |-> IdleCall]
    /\ sw = IdleSweep
    /\ invoked = [h \in HookIds |-> 0]
    /\ applied = [h \in HookIds |-> 0]
    /\ now = 0
    /\ viewerCountThrottles = [s \in Streams |-> NoThrottle]
    /\ updates = <<>>
    /\ published = <<>>
    /\ inbox = <<>>
    /\ sseConnections = [s \in Streams |-> <<>>]
    /\ subscribedChannels = {}
    /\ redisSub = {}
    /\ unsubscribing = [s \in Streams |-> 0]
    /\ sse = [k \in Conns |-> NoConnection]
    /\ http = {}

\* Time passes.
Tick ==
    /\ now + TickMs <= MaxTime
    /\ now' = now + TickMs
    /\ UNCHANGED <<dbVars, redisVars, lkVars, queueVars, api, sw, pubVars,
                   sseVars, http>>

\* A request ends: the call slot is free again and keeps only the outcome.
Return(c, res) == [IdleCall EXCEPT !.res = res]

\* -------------------------------------------- LivestreamService.createLivestream

\* An insert that replaces the row of a failed session instead of failing on
\* the unique room name.
CreateInsert_Upsert(c, s, u) ==
    /\ api[c].pc = "idle"
    /\ IF livestreams[s].status \notin {"NONE", "ERROR"}
       THEN /\ api' = [api EXCEPT ![c] = Return(c, "DatabaseError")]
            /\ UNCHANGED livestreams
       ELSE /\ livestreams' = [livestreams EXCEPT ![s] =
                                NewLivestream(u, ProposedName(s))]
            /\ api' = [api EXCEPT ![c] =
                        [IdleCall EXCEPT !.op = "create", !.pc = "createRoom",
                                         !.ls = s, !.user = u]]
    /\ UNCHANGED <<participants, ledgerVars, streamState, lkVars, queueVars, sw, outVars>>

\* validateCreateRequest passed; databaseService.createLivestream inserts the
\* row as SCHEDULED, or fails on the unique room name.
CreateInsert(c, s, u) ==
    /\ api[c].pc = "idle"
    /\ IF livestreams[s].status # "NONE"
       THEN /\ api' = [api EXCEPT ![c] = Return(c, "DatabaseError")]
            /\ UNCHANGED livestreams
       ELSE /\ livestreams' = [livestreams EXCEPT ![s] =
                                NewLivestream(u, ProposedName(s))]
            /\ api' = [api EXCEPT ![c] =
                        [IdleCall EXCEPT !.op = "create", !.pc = "createRoom",
                                         !.ls = s, !.user = u]]
    /\ UNCHANGED <<participants, ledgerVars, streamState, lkVars, queueVars, sw, outVars>>

\* createLivestream with the room name the request proposes:
\* validateCreateRequest, sanitizeRoomName, then the insert of CreateInsert.
CreateNamed(c, s, u, roomName) ==
    /\ api[c].pc = "idle"
    /\ IF validateCreateRequest(roomName) # "ok"
       THEN /\ api' = [api EXCEPT ![c] = Return(c, "ValidationError")]
            /\ UNCHANGED livestreams
       ELSE IF livestreams[s].status # "NONE"
       THEN /\ api' = [api EXCEPT ![c] = Return(c, "DatabaseError")]
            /\ UNCHANGED livestreams
       ELSE /\ livestreams' = [livestreams EXCEPT ![s] = NewLivestream(u, roomName)]
            /\ api' = [api EXCEPT ![c] =
                        [IdleCall EXCEPT !.op = "create", !.pc = "createRoom",
                                         !.ls = s, !.user = u]]
    /\ UNCHANGED <<participants, ledgerVars, streamState, lkVars, queueVars, sw, outVars>>

\* livekitService.createRoom resolves.
CreateRoom(c) ==
    /\ api[c].op = "create" /\ api[c].pc = "createRoom"
    /\ lkRoom' = [lkRoom EXCEPT ![api[c].ls] = "open"]
    /\ api' = [api EXCEPT ![c].pc = "setLive"]
    /\ UNCHANGED <<dbVars, redisVars, lkSid, queueVars, sw, outVars>>

\* updateLivestream(id, { status: 'LIVE', startedAt }).
CreateSetLive(c) ==
    /\ api[c].op = "create" /\ api[c].pc = "setLive"
    /\ livestreams' = updateLivestream(livestreams, api[c].ls, "LIVE")
    /\ api' = [api EXCEPT ![c].pc = "initState"]
    /\ UNCHANGED <<participants, ledgerVars, streamState, lkVars, queueVars, sw, outVars>>

\* stateService.initializeState, then the response.
CreateInitState(c) ==
    /\ api[c].op = "create" /\ api[c].pc = "initState"
    /\ streamState' = [streamState EXCEPT ![api[c].ls] = initializeState]
    /\ api' = [api EXCEPT ![c] = Return(c, "ok")]
    /\ UNCHANGED <<dbVars, lkVars, queueVars, sw, outVars>>

\* An await of the try block rejects (room creation, the LIVE update or the
\* state initialisation): control passes to the catch block.
CreateThrows(c) ==
    /\ api[c].op = "create" /\ api[c].pc \in {"createRoom", "setLive", "initState"}
    /\ api' = [api EXCEPT ![c].pc = "setError"]
    /\ UNCHANGED <<dbVars, redisVars, lkVars, queueVars, sw, outVars>>

\* catch: updateLivestream(id, { status: 'ERROR' }); throw error.
CreateSetError(c) ==
    /\ api[c].op = "create" /\ api[c].pc = "setError"
    /\ livestreams' = updateLivestream(livestreams, api[c].ls, "ERROR")
    /\ api' = [api EXCEPT ![c] = Return(c, "error")]
    /\ UNCHANGED <<participants, ledgerVars, streamState, lkVars, queueVars, sw, outVars>>

\* -------------------------------------------- LivestreamService.deleteLivestream

\* deleteLivestream without the ownership check.
DeleteGet_AnyUser(c, s, u) ==
    /\ api[c].pc = "idle"
    /\ api' = [api EXCEPT ![c] =
            IF livestreams[s].status = "NONE" THEN Return(c, "NotFoundError")
            ELSE IF livestreams[s].status = "ENDED" THEN Return(c, "ok")
            ELSE [IdleCall EXCEPT !.op = "delete", !.pc = "deleteRoom",
                                  !.ls = s, !.user = u]]
    /\ UNCHANGED <<dbVars, redisVars, lkVars, queueVars, sw, outVars>>

\* getLivestreamById, the ENDED short cut and the ownership check.
DeleteGet(c, s, u) ==
    /\ api[c].pc = "idle"
    /\ api' = [api EXCEPT ![c] =
            IF livestreams[s].status = "NONE" THEN Return(c, "NotFoundError")
            ELSE IF livestreams[s].status = "ENDED" THEN Return(c, "ok")
            ELSE IF livestreams[s].createdBy # u THEN Return(c, "AuthorizationError")
            ELSE [IdleCall EXCEPT !.op = "delete", !.pc = "deleteRoom",
                                  !.ls = s, !.user = u]]
    /\ UNCHANGED <<dbVars, redisVars, lkVars, queueVars, sw, outVars>>

\* livekitService.deleteRoom: the room is closed and its participants are
\* disconnected; a failure (no such room) is caught and logged.
DeleteRoom(c) ==
    /\ api[c].op = "delete" /\ api[c].pc = "deleteRoom"
    /\ lkRoom' = [lkRoom EXCEPT ![api[c].ls] = IF @ = "open" THEN "closed" ELSE @]
    /\ lkSid' = [t \in Sids |->
                    IF SidRoom(t) = api[c].ls /\ lkSid[t] = "connected" THEN "gone"
                    ELSE lkSid[t]]
    /\ api' = [api EXCEPT ![c].pc = "setEnded"]
    /\ UNCHANGED <<dbVars, redisVars, queueVars, sw, outVars>>

\* livekitService.deleteRoom rejects while the room exists (the media service
\* is not reachable): the error is logged and the call goes on.
DeleteRoomFails(c) ==
    /\ api[c].op = "delete" /\ api[c].pc = "deleteRoom"
    /\ lkRoom[api[c].ls] = "open"
    /\ api' = [api EXCEPT ![c].pc = "setEnded"]
    /\ UNCHANGED <<dbVars, redisVars, lkVars, queueVars, sw, outVars>>

\* updateLivestream(id, { status: 'ENDED', endedAt }).
DeleteSetEnded(c) ==
    /\ api[c].op = "delete" /\ api[c].pc = "setEnded"
    /\ livestreams' = updateLivestream(livestreams, api[c].ls, "ENDED")
    /\ api' = [api EXCEPT ![c] = Return(c, "ok")]
    /\ UNCHANGED <<participants, ledgerVars, streamState, lkVars, queueVars, sw, outVars>>

\* ---------------------------------------------- LivestreamService.joinLivestream

\* validateJoinRequest passed; getLivestreamById and the LIVE check.
JoinGet(c, s, u, role) ==
    /\ api[c].pc = "idle"
    /\ api' = [api EXCEPT ![c] =
            IF livestreams[s].status = "NONE" THEN Return(c, "NotFoundError")
            ELSE IF livestreams[s].status # "LIVE" THEN Return(c, "ValidationError")
            ELSE [IdleCall EXCEPT !.op = "join", !.pc = "checkActive",
                                  !.ls = s, !.user = u, !.role = role]]
    /\ UNCHANGED <<dbVars, redisVars, lkVars, queueVars, sw, outVars>>

\* joinLivestream without the HOST check.
JoinCheckActive_AnyHost(c) ==
    /\ api[c].op = "join" /\ api[c].pc = "checkActive"
    /\ api' = [api EXCEPT ![c] =
            IF getActiveParticipant(participants, api[c].user, api[c].ls) # {}
            THEN Return(c, "ConflictError")
            ELSE [api[c] EXCEPT !.pc = "createParticipant"]]
    /\ UNCHANGED <<dbVars, redisVars, lkVars, queueVars, sw, outVars>>

\* getActiveParticipant, the conflict check and the HOST check.
JoinCheckActive(c) ==
    /\ api[c].op = "join" /\ api[c].pc = "checkActive"
    /\ api' = [api EXCEPT ![c] =
            IF getActiveParticipant(participants, api[c].user, api[c].ls) # {}
            THEN Return(c, "ConflictError")
            ELSE IF api[c].role = "HOST" /\ livestreams[api[c].ls].createdBy # api[c].user
                 THEN Return(c, "AuthorizationError")
            ELSE [api[c] EXCEPT !.pc = "createParticipant"]]
    /\ UNCHANGED <<dbVars, redisVars, lkVars, queueVars, sw, outVars>>

\* createParticipant, then the access token (a local computation) and the
\* response.
JoinCreate(c) ==
    /\ api[c].op = "join" /\ api[c].pc = "createParticipant"
    /\ Len(participants) < MaxRows
    /\ participants' = createParticipant(participants, api[c].ls, api[c].user, api[c].role)
    /\ api' = [api EXCEPT ![c] = Return(c, "ok")]
    /\ UNCHANGED <<livestreams, ledgerVars, redisVars, lkVars, queueVars, sw, outVars>>

\* --------------------------------------------- LivestreamService.leaveLivestream

\* The user id is given; getLivestreamById.
LeaveGet(c, s, u) ==
    /\ api[c].pc = "idle"
    /\ api' = [api EXCEPT ![c] =
            IF livestreams[s].status = "NONE" THEN Return(c, "NotFoundError")
            ELSE [IdleCall EXCEPT !.op = "leave", !.pc = "getActive",
                                  !.ls = s, !.user = u]]
    /\ UNCHANGED <<dbVars, redisVars, lkVars, queueVars, sw, outVars>>

\* getActiveParticipant: no row, a row without sid, or the row's sid.
LeaveGetActive(c) ==
    /\ api[c].op = "leave" /\ api[c].pc = "getActive"
    /\ LET found == getActiveParticipant(participants, api[c].user, api[c].ls)
       IN IF found = {}
          THEN api' = [api EXCEPT ![c] = Return(c, "ok")]
          ELSE \E i \in found :
                 api' = [api EXCEPT ![c] =
                    IF participants[i].sid = NULL THEN Return(c, "ValidationError")
                    ELSE [api[c] EXCEPT !.pc = "markFind", !.sid = participants[i].sid]]
    /\ UNCHANGED <<dbVars, redisVars, lkVars, queueVars, sw, outVars>>

\* markParticipantAsLeftBySid, inside the transaction: findUnique by sid.
LeaveMarkFind(c) ==
    /\ api[c].op = "leave" /\ api[c].pc = "markFind"
    /\ LET r == findBySid(participants, api[c].sid)
       IN api' = [api EXCEPT ![c] =
            IF r = 0 \/ participants[r].status = "LEFT"
            THEN [api[c] EXCEPT !.pc = "getState"]
            ELSE [api[c] EXCEPT !.pc = "markUpdate", !.row = r]]
    /\ UNCHANGED <<dbVars, redisVars, lkVars, queueVars, sw, outVars>>

\* markParticipantAsLeftBySid, inside the transaction: update to LEFT.
LeaveMarkUpdate(c) ==
    /\ api[c].op = "leave" /\ api[c].pc = "markUpdate"
    /\ participants' = markLeft(participants, api[c].row)
    /\ api' = [api EXCEPT ![c].pc = "getState", ![c].row = 0]
    /\ UNCHANGED <<livestreams, ledgerVars, redisVars, lkVars, queueVars, sw, outVars>>

\* stateService.handleParticipantLeft: getState and the index of the user.
LeaveGetState(c) ==
    /\ api[c].op = "leave" /\ api[c].pc = "getState"
    /\ LET st == streamState[api[c].ls]
       IN api' = [api EXCEPT ![c] =
            IF st.status = "NONE" \/ ~Includes(st.participants, api[c].user)
            THEN Return(c, "ok")
            ELSE [api[c] EXCEPT !.pc = "setState", !.st = st]]
    /\ UNCHANGED <<dbVars, redisVars, lkVars, queueVars, sw, outVars>>

\* stateService.handleParticipantLeft: setState of the copy read before.
LeaveSetState(c) ==
    /\ api[c].op = "leave" /\ api[c].pc = "setState"
    /\ streamState' = [streamState EXCEPT ![api[c].ls] = stateLeft(api[c].st, api[c].user)]
    /\ api' = [api EXCEPT ![c].pc = "viewerCount",
                          ![c].st = stateLeft(api[c].st, api[c].user)]
    /\ UNCHANGED <<dbVars, lkVars, queueVars, sw, outVars>>

\* stateService.handleParticipantLeft: checkAndBroadcastViewerCount.
LeaveBroadcast(c) ==
    /\ api[c].op = "leave" /\ api[c].pc = "viewerCount"
    /\ checkAndBroadcastViewerCount(api[c].ls, api[c].st)
    /\ api' = [api EXCEPT ![c] = Return(c, "ok")]
    /\ UNCHANGED <<dbVars, redisVars, lkVars, queueVars, sw, now, sseVars, http>>

\* ------------------------------------------------- GET /:id/events (SSE)

\* The route's getState: without a state the answer is 404, with one the
\* response stays open for subscribeToStateEvents.
SSERequest(k, s) ==
    /\ sse[k].pc = "none"
    /\ sse' = [sse EXCEPT ![k] =
            IF streamState[s].status = "NONE"
            THEN [NoConnection EXCEPT !.pc = "refused", !.ls = s]
            ELSE [NoConnection EXCEPT !.pc = "register", !.ls = s, !.open = TRUE]]
    /\ UNCHANGED <<dbVars, redisVars, lkVars, queueVars, api, sw, now, pubVars,
                   sseConnections, subscribedChannels, redisSub, unsubscribing, http>>

\* subscribeToStateEvents up to its first await: the connection is pushed to
\* the list of its session; for the first connection subscribeToRedisChannel
\* sends SUBSCRIBE unless the channel is in subscribedChannels; otherwise
\* getState is called next.
SSERegister(k) ==
    /\ sse[k].pc = "register"
    /\ LET s == sse[k].ls
           first == sseConnections[s] = <<>>
       IN /\ sseConnections' = [sseConnections EXCEPT ![s] = Append(@, k)]
          /\ IF first /\ s \notin subscribedChannels
             THEN /\ redisSub' = redisSub \cup {s}
                  /\ sse' = [sse EXCEPT ![k].pc = "subscribe",
                                        ![k].at = Len(published)]
             ELSE /\ UNCHANGED redisSub
                  /\ sse' = [sse EXCEPT ![k].pc = "state",
                                        ![k].at = Len(published)]
    /\ UNCHANGED <<dbVars, redisVars, lkVars, queueVars, api, sw, now, pubVars,
                   subscribedChannels, unsubscribing, http>>

\* redisSubClient.subscribe resolved: the channel is added to
\* subscribedChannels and getState is called.
SSESubscribed(k) ==
    /\ sse[k].pc = "subscribe"
    /\ subscribedChannels' = subscribedChannels \cup {sse[k].ls}
    /\ sse' = [sse EXCEPT ![k].pc = "state"]
    /\ UNCHANGED <<dbVars, redisVars, lkVars, queueVars, api, sw, now, pubVars,
                   sseConnections, redisSub, unsubscribing, http>>

\* getState resolved: the state event is sent when there is a state, and the
\* close handler is registered.
SSEState(k) ==
    /\ sse[k].pc = "state"
    /\ sse' = [sse EXCEPT ![k].pc = "open",
                          ![k].out = IF streamState[sse[k].ls].status # "NONE"
                                        /\ sse[k].open
                                     THEN Append(@, "state") ELSE @]
    /\ UNCHANGED <<dbVars, redisVars, lkVars, queueVars, api, sw, now, pubVars,
                   sseConnections, subscribedChannels, redisSub, unsubscribing, http>>

\* The client of connection k disconnects.  Once subscribeToStateEvents has
\* registered its close handler, removeSSEConnection takes the connection out
\* of the list and, when the list gets empty, deletes it and calls
\* unsubscribeFromRedisChannel without await; a close before that finds no
\* handler and the connection stays in the list.
ClientClose(k) ==
    /\ sse[k].open
    /\ sse[k].pc \in {"register", "subscribe", "state", "open"}
    /\ sse' = [sse EXCEPT ![k].open = FALSE]
    /\ LET s == sse[k].ls
           rest == Without(sseConnections[s], k)
       IN IF sse[k].pc = "open" /\ Includes(sseConnections[s], k)
          THEN /\ sseConnections' = [sseConnections EXCEPT ![s] = rest]
               /\ IF rest = <<>> /\ s \in subscribedChannels
                  THEN /\ redisSub' = redisSub \ {s}
                       /\ unsubscribing' = [unsubscribing EXCEPT ![s] = @ + 1]
                  ELSE UNCHANGED <<redisSub, unsubscribing>>
          ELSE UNCHANGED <<sseConnections, redisSub, unsubscribing>>
    /\ UNCHANGED <<dbVars, redisVars, lkVars, queueVars, api, sw, now, pubVars,
                   subscribedChannels, http>>

\* handleRedisMessage: the next message of the subscriber client goes to
\* broadcastToSSEClients, which writes it to every connection in the list of
\* its session.
Deliver ==
    /\ inbox # <<>>
    /\ sse' = sendAll(sse, sseConnections[Head(inbox).ls], Head(inbox).type)
    /\ inbox' = Tail(inbox)
    /\ UNCHANGED <<dbVars, redisVars, lkVars, queueVars, api, sw, now,
                   throttleVars, published, sseConnections, subscribedChannels,
                   redisSub, unsubscribing, http>>

\* unsubscribeFromRedisChannel: redisSubClient.unsubscribe resolved and the
\* channel is removed from subscribedChannels.
Unsubscribed(s) ==
    /\ unsubscribing[s] > 0
    /\ unsubscribing' = [unsubscribing EXCEPT ![s] = @ - 1]
    /\ subscribedChannels' = subscribedChannels \ {s}
    /\ UNCHANGED <<dbVars, redisVars, lkVars, queueVars, api, sw, now, pubVars,
                   sseConnections, redisSub, sse, http>>

\* ------------------------------------------------------------ media service

\* A user who was issued a token connects: a new participant session; an
\* older session of the same identity in the room is dropped.
LKConnect(t) ==
    /\ lkSid[t] = "none"
    /\ lkRoom[SidRoom(t)] = "open"
    /\ \E i \in DOMAIN participants :
            /\ participants[i].userId = SidUser(t)
            /\ participants[i].livestreamId = SidRoom(t)
    /\ lkSid' = [x \in Sids |->
                    IF x = t THEN "connected"
                    ELSE IF lkSid[x] = "connected" /\ SidUser(x) = SidUser(t)
                            /\ SidRoom(x) = SidRoom(t)
                         THEN "gone"
                    ELSE lkSid[x]]
    /\ UNCHANGED <<dbVars, redisVars, lkRoom, queueVars, api, sw, outVars>>

\* A participant session ends.
LKDisconnect(t) ==
    /\ lkSid[t] = "connected"
    /\ lkSid' = [lkSid EXCEPT ![t] = "gone"]
    /\ UNCHANGED <<dbVars, redisVars, lkRoom, queueVars, api, sw, outVars>>

\* A room closes on the media service's side (empty timeout, dashboard).
LKRoomCloses(s) ==
    /\ lkRoom[s] = "open"
    /\ lkRoom' = [lkRoom EXCEPT ![s] = "closed"]
    /\ lkSid' = [t \in Sids |->
                    IF SidRoom(t) = s /\ lkSid[t] = "connected" THEN "gone"
                    ELSE lkSid[t]]
    /\ UNCHANGED <<dbVars, redisVars, queueVars, api, sw, outVars>>

\* The media service has a reason to send notification h.
Sendable(h) ==
    LET p == Payload(h)
    IN CASE p.event = "room_started" -> lkRoom[p.room] # "none"
         [] p.event = "room_finished" -> lkRoom[p.room] = "closed"
         [] p.event = "participant_joined" -> lkSid[p.sid] # "none"
         [] p.event = "participant_left" -> lkSid[p.sid] = "gone"

\* ------------------------------------------------------- Notification Queue

\* What a POST may carry: the JSON of a notification, bytes that are no JSON,
\* or a content type express.raw does not take, so that req.body is no Buffer.
Bodies == HookIds \cup {"garbage", "nonbuffer"}

\* What this.webhookReceiver.receive(body, authHeader) hands to its caller
\* before any await.  A receiver that verifies synchronously throws on a bad
\* signature and on a body that is no JSON, and returns the event otherwise.
\* The receive of livekit-server-sdk 2.x is an async function: its caller
\* holds a Promise, an object without own keys, whatever the request is.
receive(body, signed) ==
    {"promise"} \cup (IF signed /\ body \in HookIds THEN {"event"} ELSE {"throws"})

\* LiveKitService.verifyWebhook for the outcome r of receive: the event (here
\* its id) or NULL.  An object without keys makes it return JSON.parse(body),
\* and every throw inside the try block makes it return null.
verifyWebhook(body, r) ==
    CASE r = "throws" -> NULL
      [] r = "event" -> body
      [] r = "promise" -> IF body \in HookIds THEN body ELSE NULL

\* POST /webhooks/livekit.  up: addWebhookJob resolves; the job id is the
\* webhook id, and the queue ignores an id it still holds.
Post(body, signed, r, up) ==
    /\ body \in Bodies
    /\ r \in receive(body, signed)
    /\ LET event == IF body = "nonbuffer" THEN NULL ELSE verifyWebhook(body, r)
           status == IF body = "nonbuffer" THEN 400
                     ELSE IF event = NULL THEN 401 ELSE 200
           queued == event # NULL /\ up
       IN /\ jobs' = IF queued /\ jobs[event].state = "none"
                     THEN [jobs EXCEPT ![event] = [NoJob EXCEPT !.state = "waiting"]]
                     ELSE jobs
          /\ http' = http \cup {[body |-> body, signed |-> signed,
                                  status |-> status, queued |-> queued]}
    /\ UNCHANGED <<dbVars, redisVars, lkVars, wk, invoked, applied, api, sw,
                   now, pubVars, sseVars>>

\* The media service delivers notification h, signed with the shared secret,
\* and the queue takes it.
Receive(h) ==
    /\ Sendable(h)
    /\ jobs[h].state = "none"
    /\ \E r \in {"event", "promise"} : Post(h, TRUE, r, TRUE)

\* removeOnComplete: 100 - a completed job leaves the queue after later ones.
QueueEvict(h) ==
    /\ jobs[h].state = "completed"
    /\ jobs' = [jobs EXCEPT ![h] = NoJob]
    /\ UNCHANGED <<dbVars, redisVars, lkVars, wk, invoked, applied, api, sw, outVars>>

\* The lock of an active job lapses: the queue puts the job back to waiting
\* while the worker that holds it goes on.
JobStalled(h) ==
    /\ jobs[h].state = "active"
    /\ jobs[h].stalled < MaxStalled
    /\ jobs' = [jobs EXCEPT ![h].state = "waiting", ![h].owner = NULL,
                            ![h].stalled = @ + 1]
    /\ UNCHANGED <<dbVars, redisVars, lkVars, wk, invoked, applied, api, sw, outVars>>

\* The worker's processor resolved: the job it still holds is completed.
JobCompleted(w) ==
    LET h == wk[w].job
    IN IF jobs[h].state = "active" /\ jobs[h].owner = w
       THEN [jobs EXCEPT ![h].state = "completed", ![h].owner = NULL]
       ELSE jobs

\* The worker's processor rejected: retry while attempts remain, else failed.
JobFailed(w) ==
    LET h == wk[w].job
    IN IF jobs[h].state = "active" /\ jobs[h].owner = w
       THEN [jobs EXCEPT ![h].state =
                            IF jobs[h].attemptsMade < MaxAttempts THEN "waiting"
                            ELSE "failed",
                         ![h].owner = NULL]
       ELSE jobs

\* ------------------------------------------------------------ processWebhook

Job(w) == Payload(wk[w].job)

\* A worker with a free slot takes a waiting job.
Take(w, h) ==
    /\ wk[w].pc = "idle"
    /\ jobs[h].state = "waiting"
    /\ jobs' = [jobs EXCEPT ![h].state = "active", ![h].owner = w,
                            ![h].attemptsMade = @ + 1]
    /\ wk' = [wk EXCEPT ![w] = [IdleWorker EXCEPT !.pc = "check", !.job = h]]
    /\ UNCHANGED <<dbVars, redisVars, lkVars, invoked, applied, api, sw, outVars>>

\* handleWebhookEvent returned: processWebhook returns.
Applied(w) ==
    /\ jobs' = JobCompleted(w)
    /\ applied' = [applied EXCEPT ![wk[w].job] = @ + 1]
    /\ wk' = [wk EXCEPT ![w] = IdleWorker]

\* handleWebhookEvent is entered.
Invoked(w) == invoked' = [invoked EXCEPT ![wk[w].job] = @ + 1]

\* A step 1 that ignores the ledger.
Check_NoSkip(w) ==
    /\ wk[w].pc = "check"
    /\ wk' = [wk EXCEPT ![w].pc = "record"]
    /\ UNCHANGED jobs
    /\ UNCHANGED <<dbVars, redisVars, lkVars, invoked, applied, api, sw, outVars>>

\* Step 1: checkWebhookProcessed; a processed id is skipped.
Check(w) ==
    /\ wk[w].pc = "check"
    /\ IF Includes(webhookEvents, wk[w].job)
       THEN /\ jobs' = JobCompleted(w)
            /\ wk' = [wk EXCEPT ![w] = IdleWorker]
       ELSE /\ wk' = [wk EXCEPT ![w].pc = "record"]
            /\ UNCHANGED jobs
    /\ UNCHANGED <<dbVars, redisVars, lkVars, invoked, applied, api, sw, outVars>>

\* A step 2 that leaves the insert to a later step.
Record_Deferred(w) ==
    /\ wk[w].pc = "record"
    /\ wk' = [wk EXCEPT ![w].pc = "handle"]
    /\ UNCHANGED <<dbVars, redisVars, lkVars, jobs, invoked, applied, api, sw, outVars>>

\* Step 2: recordWebhookProcessed; a duplicate key (P2002) is logged and the
\* call returns normally.
Record(w) ==
    /\ wk[w].pc = "record"
    /\ IF Includes(webhookEvents, wk[w].job)
       THEN UNCHANGED <<webhookEvents, processedAt>>
       ELSE /\ webhookEvents' = Append(webhookEvents, wk[w].job)
            /\ processedAt' = [processedAt EXCEPT ![wk[w].job] = Append(@, hour)]
    /\ UNCHANGED <<hour, deletedCount>>
    /\ wk' = [wk EXCEPT ![w].pc = "handle"]
    /\ UNCHANGED <<livestreams, participants, redisVars, lkVars, jobs, invoked,
                   applied, api, sw, outVars>>

\* webhook_events.expiresAt of the row an id has now: 24 hours after the insert.
expiresAt(h) == processedAt[h][Len(processedAt[h])] + WEBHOOK_TTL_HOURS

\* The rows deleteMany({ expiresAt: { lt: new Date() } }) matches.
Expired == {i \in 1..Len(webhookEvents) : expiresAt(webhookEvents[i]) < hour}

\* The ledger without the rows at the positions in gone, order kept.
RECURSIVE Kept(_, _)
Kept(i, gone) ==
    IF i > Len(webhookEvents) THEN <<>>
    ELSE (IF i \in gone THEN <<>> ELSE <<webhookEvents[i]>>) \o Kept(i + 1, gone)

\* runCleanup with a store that answers: the expired rows go in one
\* statement and their number is the result.
cleanupOldWebhooks ==
    /\ webhookEvents' = Kept(1, Expired)
    /\ deletedCount' = Cardinality(Expired)
    /\ UNCHANGED <<processedAt, hour>>
    /\ UNCHANGED <<livestreams, participants, redisVars, lkVars, queueVars, api,
                   sw, outVars>>

\* runCleanup with a store that rejects: the error is logged and the result
\* is 0.
CleanupThrows ==
    /\ deletedCount' = 0
    /\ UNCHANGED <<webhookEvents, processedAt, hour>>
    /\ UNCHANGED <<livestreams, participants, redisVars, lkVars, queueVars, api,
                   sw, outVars>>

\* An hour passes on the ledger's clock.
TickHour ==
    /\ hour < MaxHours
    /\ hour' = hour + 1
    /\ UNCHANGED <<webhookEvents, processedAt, deletedCount>>
    /\ UNCHANGED <<livestreams, participants, redisVars, lkVars, queueVars, api,
                   sw, outVars>>

\* Where an awaited store call of processWebhook may reject (getState
\* catches its own errors).
CanThrow(w) ==
    /\ wk[w].pc \in {"check", "record", "handle", "pj_update", "pj_set",
                     "pl_update", "pl_get", "pl_set", "rs_pub", "rf_loop",
                     "rf_update", "re_set", "re_pub"}
    /\ wk[w].pc = "rf_loop" => wk[w].sids # <<>>

\* The rejection propagates out of processWebhook to the queue.
Throws(w) ==
    /\ jobs' = JobFailed(w)
    /\ wk' = [wk EXCEPT ![w] = IdleWorker]
    /\ invoked' = IF wk[w].pc = "handle"
                  THEN [invoked EXCEPT ![wk[w].job] = @ + 1] ELSE invoked

WorkerThrows(w) ==
    /\ CanThrow(w)
    /\ Throws(w)
    /\ UNCHANGED <<dbVars, redisVars, lkVars, applied, api, sw, outVars>>

\* ------------------------------------- handleWebhookEvent: participant_joined

\* updateParticipantWithLiveKitSids: findFirst.
PJFind(w) ==
    /\ wk[w].pc = "handle" /\ Job(w).event = "participant_joined"
    /\ Invoked(w)
    /\ LET r == findPendingParticipant(participants, Job(w).identity, Job(w).room)
       IN IF r = 0
          THEN Applied(w)
          ELSE /\ wk' = [wk EXCEPT ![w].pc = "pj_update", ![w].row = r]
               /\ UNCHANGED <<jobs, applied>>
    /\ UNCHANGED <<dbVars, redisVars, lkVars, api, sw, outVars>>

\* updateParticipantWithLiveKitSids: update where id; the unique index on the
\* sid rejects a sid another row holds (DatabaseError).
PJUpdate(w) ==
    /\ wk[w].pc = "pj_update"
    /\ IF SidTaken(participants, wk[w].row, Job(w).sid)
       THEN /\ Throws(w)
            /\ UNCHANGED <<participants, applied>>
       ELSE /\ participants' = [participants EXCEPT ![wk[w].row].sid = Job(w).sid]
            /\ wk' = [wk EXCEPT ![w].pc = "pj_get", ![w].row = 0]
            /\ UNCHANGED <<jobs, invoked, applied>>
    /\ UNCHANGED <<livestreams, ledgerVars, redisVars, lkVars, api, sw, outVars>>

\* handleParticipantJoined: getState and the includes test.
PJGetState(w) ==
    /\ wk[w].pc = "pj_get"
    /\ LET st == streamState[Job(w).room]
       IN IF st.status = "NONE" \/ Includes(st.participants, Job(w).identity)
          THEN Applied(w)
          ELSE /\ wk' = [wk EXCEPT ![w].pc = "pj_set", ![w].st = st]
               /\ UNCHANGED <<jobs, applied>>
    /\ UNCHANGED <<dbVars, redisVars, lkVars, invoked, api, sw, outVars>>

\* handleParticipantJoined: setState of the copy read before.
PJSetState(w) ==
    /\ wk[w].pc = "pj_set"
    /\ streamState' = [streamState EXCEPT ![Job(w).room] =
                            stateJoined(wk[w].st, Job(w).identity)]
    /\ wk' = [wk EXCEPT ![w].pc = "pj_vc",
                        ![w].st = stateJoined(wk[w].st, Job(w).identity)]
    /\ UNCHANGED <<dbVars, lkVars, jobs, invoked, applied, api, sw, outVars>>

\* handleParticipantJoined: checkAndBroadcastViewerCount.
PJBroadcast(w) ==
    /\ wk[w].pc = "pj_vc"
    /\ checkAndBroadcastViewerCount(Job(w).room, wk[w].st)
    /\ Applied(w)
    /\ UNCHANGED <<dbVars, redisVars, lkVars, invoked, api, sw, now, sseVars, http>>

\* --------------------------------------- handleWebhookEvent: participant_left

\* markParticipantAsLeftBySid, inside the transaction: findUnique by sid.
PLFind(w) ==
    /\ wk[w].pc = "handle" /\ Job(w).event = "participant_left"
    /\ Invoked(w)
    /\ LET r == findBySid(participants, Job(w).sid)
       IN IF r = 0 \/ participants[r].status = "LEFT"
          THEN Applied(w)
          ELSE /\ wk' = [wk EXCEPT ![w].pc = "pl_update", ![w].row = r]
               /\ UNCHANGED <<jobs, applied>>
    /\ UNCHANGED <<dbVars, redisVars, lkVars, api, sw, outVars>>

\* markParticipantAsLeftBySid, inside the transaction: update to LEFT.
PLUpdate(w) ==
    /\ wk[w].pc = "pl_update"
    /\ participants' = markLeft(participants, wk[w].row)
    /\ wk' = [wk EXCEPT ![w].pc = "pl_get", ![w].row = 0]
    /\ UNCHANGED <<livestreams, ledgerVars, redisVars, lkVars, jobs, invoked,
                   applied, api, sw, outVars>>

\* handleParticipantLeft: getState and the index of the user.
PLGetState(w) ==
    /\ wk[w].pc = "pl_get"
    /\ LET st == streamState[Job(w).room]
       IN IF st.status = "NONE" \/ ~Includes(st.participants, Job(w).identity)
          THEN Applied(w)
          ELSE /\ wk' = [wk EXCEPT ![w].pc = "pl_set", ![w].st = st]
               /\ UNCHANGED <<jobs, applied>>
    /\ UNCHANGED <<dbVars, redisVars, lkVars, invoked, api, sw, outVars>>

\* handleParticipantLeft: setState of the copy read before.
PLSetState(w) ==
    /\ wk[w].pc = "pl_set"
    /\ streamState' = [streamState EXCEPT ![Job(w).room] =
                            stateLeft(wk[w].st, Job(w).identity)]
    /\ wk' = [wk EXCEPT ![w].pc = "pl_vc",
                        ![w].st = stateLeft(wk[w].st, Job(w).identity)]
    /\ UNCHANGED <<dbVars, lkVars, jobs, invoked, applied, api, sw, outVars>>

\* handleParticipantLeft: checkAndBroadcastViewerCount.
PLBroadcast(w) ==
    /\ wk[w].pc = "pl_vc"
    /\ checkAndBroadcastViewerCount(Job(w).room, wk[w].st)
    /\ Applied(w)
    /\ UNCHANGED <<dbVars, redisVars, lkVars, invoked, api, sw, now, sseVars, http>>

\* ------------------------------------------- handleWebhookEvent: room_started

\* getState; nothing is broadcast without a state.
RSGetState(w) ==
    /\ wk[w].pc = "handle" /\ Job(w).event = "room_started"
    /\ Invoked(w)
    /\ LET st == streamState[Job(w).room]
       IN IF st.status = "NONE"
          THEN Applied(w)
          ELSE /\ wk' = [wk EXCEPT ![w].pc = "rs_pub", ![w].st = st]
               /\ UNCHANGED <<jobs, applied>>
    /\ UNCHANGED <<dbVars, redisVars, lkVars, api, sw, outVars>>

\* broadcastStateEvent(id, 'room_started', state).
RSPublish(w) ==
    /\ wk[w].pc = "rs_pub"
    /\ broadcastStateEvent(Job(w).room, "room_started", wk[w].st)
    /\ Applied(w)
    /\ UNCHANGED <<dbVars, redisVars, lkVars, invoked, api, sw, now,
                   throttleVars, sseVars, http>>

\* ------------------------------------------ handleWebhookEvent: room_finished

\* The sids of the listed rows; a row without sid is only logged.
RECURSIVE sidsOf(_, _)
sidsOf(rows, ids) ==
    IF ids = <<>> THEN <<>>
    ELSE IF rows[Head(ids)].sid = NULL THEN sidsOf(rows, Tail(ids))
    ELSE <<rows[Head(ids)].sid>> \o sidsOf(rows, Tail(ids))

\* listParticipants({ livestreamId, status: 'JOINED' }).
RFList(w) ==
    /\ wk[w].pc = "handle" /\ Job(w).event = "room_finished"
    /\ Invoked(w)
    /\ wk' = [wk EXCEPT ![w].pc = "rf_loop",
                        ![w].listed = listJoined(participants, Job(w).room),
                        ![w].sids = sidsOf(participants, listJoined(participants, Job(w).room))]
    /\ UNCHANGED <<dbVars, redisVars, lkVars, jobs, applied, api, sw, outVars>>

\* The loop's markParticipantAsLeftBySid, inside the transaction: findUnique.
RFMarkFind(w) ==
    /\ wk[w].pc = "rf_loop" /\ wk[w].sids # <<>>
    /\ LET r == findBySid(participants, Head(wk[w].sids))
       IN wk' = [wk EXCEPT ![w] =
            IF r = 0 \/ participants[r].status = "LEFT"
            THEN [wk[w] EXCEPT !.sids = Tail(@)]
            ELSE [wk[w] EXCEPT !.pc = "rf_update", !.row = r]]
    /\ UNCHANGED <<dbVars, redisVars, lkVars, jobs, invoked, applied, api, sw, outVars>>

\* The loop's markParticipantAsLeftBySid, inside the transaction: update.
RFMarkUpdate(w) ==
    /\ wk[w].pc = "rf_update"
    /\ participants' = markLeft(participants, wk[w].row)
    /\ wk' = [wk EXCEPT ![w].pc = "rf_loop", ![w].row = 0, ![w].sids = Tail(@)]
    /\ UNCHANGED <<livestreams, ledgerVars, redisVars, lkVars, jobs, invoked,
                   applied, api, sw, outVars>>

\* stateService.handleRoomEnded: getState.
RFGetState(w) ==
    /\ wk[w].pc = "rf_loop" /\ wk[w].sids = <<>>
    /\ LET st == streamState[Job(w).room]
       IN IF st.status = "NONE"
          THEN Applied(w)
          ELSE /\ wk' = [wk EXCEPT ![w].pc = "re_set", ![w].st = st]
               /\ UNCHANGED <<jobs, applied>>
    /\ UNCHANGED <<dbVars, redisVars, lkVars, invoked, api, sw, outVars>>

\* stateService.handleRoomEnded: setState with status ENDED.
RFSetEnded(w) ==
    /\ wk[w].pc = "re_set"
    /\ streamState' = [streamState EXCEPT ![Job(w).room] = stateEnded(wk[w].st)]
    /\ wk' = [wk EXCEPT ![w].pc = "re_pub", ![w].st = stateEnded(wk[w].st)]
    /\ UNCHANGED <<dbVars, lkVars, jobs, invoked, applied, api, sw, outVars>>

\* stateService.handleRoomEnded: the room_ended broadcast.
RFPublish(w) ==
    /\ wk[w].pc = "re_pub"
    /\ broadcastStateEvent(Job(w).room, "room_ended", wk[w].st)
    /\ wk' = [wk EXCEPT ![w].pc = "re_close"]
    /\ UNCHANGED <<dbVars, redisVars, lkVars, jobs, invoked, applied, api, sw,
                   now, throttleVars, sseVars, http>>

\* stateService.handleRoomEnded: the publish resolved; the connections of
\* the session are closed.
RFClose(w) ==
    /\ wk[w].pc = "re_close"
    /\ closeConnectionsForStream(Job(w).room)
    /\ Applied(w)
    /\ UNCHANGED <<dbVars, redisVars, lkVars, invoked, api, sw, now, pubVars, http>>

\* ------------------------------------------------------- runReconciliation

\* The timer fires: listLivestreams({ status: 'LIVE' }); nothing to do
\* without a LIVE session.
SweepStart ==
    /\ sw.pc \in {"idle", "done"}
    /\ LET live == {s \in Streams : livestreams[s].status = "LIVE"}
       IN sw' = [IdleSweep EXCEPT !.pc = IF live = {} THEN "done" ELSE "listRooms",
                                  !.live = live]
    /\ UNCHANGED <<dbVars, redisVars, lkVars, queueVars, api, outVars>>

\* A sweep that takes every LIVE session for stale.
SweepListRooms_NoFilter ==
    /\ sw.pc = "listRooms"
    /\ LET rooms == {s \in Streams : lkRoom[s] = "open"}
       IN sw' = [sw EXCEPT !.pc = "next", !.rooms = rooms, !.stale = sw.live]
    /\ UNCHANGED <<dbVars, redisVars, lkVars, queueVars, api, outVars>>

\* livekitService.listRooms and the filter for the stale sessions.
SweepListRooms ==
    /\ sw.pc = "listRooms"
    /\ LET rooms == {s \in Streams : lkRoom[s] = "open"}
       IN sw' = [sw EXCEPT !.pc = IF sw.live \ rooms = {} THEN "done" ELSE "next",
                           !.rooms = rooms,
                           !.stale = sw.live \ rooms]
    /\ UNCHANGED <<dbVars, redisVars, lkVars, queueVars, api, outVars>>

\* The loop over the stale sessions takes the next one and lists its JOINED
\* participants; after the last one the statistics are returned.
SweepNext ==
    /\ sw.pc = "next"
    /\ IF sw.stale = {}
       THEN sw' = [sw EXCEPT !.pc = "done"]
       ELSE \E s \in sw.stale :
              sw' = [sw EXCEPT !.pc = "mark", !.cur = s, !.stale = @ \ {s},
                               !.listed = listJoined(participants, s),
                               !.sids = sidsOf(participants, listJoined(participants, s))]
    /\ UNCHANGED <<dbVars, redisVars, lkVars, queueVars, api, outVars>>

\* The loop's markParticipantAsLeftBySid, inside the transaction: findUnique.
SweepMarkFind ==
    /\ sw.pc = "mark" /\ sw.sids # <<>>
    /\ LET r == findBySid(participants, Head(sw.sids))
       IN sw' = IF r = 0 \/ participants[r].status = "LEFT"
                THEN [sw EXCEPT !.sids = Tail(@)]
                ELSE [sw EXCEPT !.pc = "markUpdate", !.row = r]
    /\ UNCHANGED <<dbVars, redisVars, lkVars, queueVars, api, outVars>>

\* The loop's markParticipantAsLeftBySid, inside the transaction: update.
SweepMarkUpdate ==
    /\ sw.pc = "markUpdate"
    /\ participants' = markLeft(participants, sw.row)
    /\ sw' = [sw EXCEPT !.pc = "mark", !.row = 0, !.sids = Tail(@)]
    /\ UNCHANGED <<livestreams, ledgerVars, redisVars, lkVars, queueVars, api, outVars>>

\* updateLivestream(id, { status: 'ENDED', endedAt }).
SweepSetEnded ==
    /\ sw.pc = "mark" /\ sw.sids = <<>>
    /\ livestreams' = updateLivestream(livestreams, sw.cur, "ENDED")
    /\ sw' = [sw EXCEPT !.pc = "getState", !.ended = @ \cup {sw.cur}]
    /\ UNCHANGED <<participants, ledgerVars, redisVars, lkVars, queueVars, api, outVars>>

\* stateService.handleRoomEnded: getState.
SweepGetState ==
    /\ sw.pc = "getState"
    /\ LET st == streamState[sw.cur]
       IN sw' = IF st.status = "NONE"
                THEN [sw EXCEPT !.pc = "next", !.cur = NULL]
                ELSE [sw EXCEPT !.pc = "setState", !.st = st]
    /\ UNCHANGED <<dbVars, redisVars, lkVars, queueVars, api, outVars>>

\* stateService.handleRoomEnded: setState with status ENDED.
SweepSetState ==
    /\ sw.pc = "setState"
    /\ streamState' = [streamState EXCEPT ![sw.cur] = stateEnded(sw.st)]
    /\ sw' = [sw EXCEPT !.pc = "publish", !.st = stateEnded(sw.st)]
    /\ UNCHANGED <<dbVars, lkVars, queueVars, api, outVars>>

\* stateService.handleRoomEnded: the room_ended broadcast.
SweepPublish ==
    /\ sw.pc = "publish"
    /\ broadcastStateEvent(sw.cur, "room_ended", sw.st)
    /\ sw' = [sw EXCEPT !.pc = "close"]
    /\ UNCHANGED <<dbVars, redisVars, lkVars, queueVars, api, now,
                   throttleVars, sseVars, http>>

\* stateService.handleRoomEnded: the publish resolved; the connections of
\* the session are closed.
SweepClose ==
    /\ sw.pc = "close"
    /\ closeConnectionsForStream(sw.cur)
    /\ sw' = [sw EXCEPT !.pc = "next", !.cur = NULL, !.st = NoState]
    /\ UNCHANGED <<dbVars, redisVars, lkVars, queueVars, api, now, pubVars, http>>

\* A per-session failure that ends the sweep as the outer catch does.
SweepThrows_Returns ==
    /\ sw.pc \in {"mark", "markUpdate", "setState", "publish"}
    /\ sw' = [sw EXCEPT !.pc = "done", !.cur = NULL, !.sids = <<>>, !.row = 0,
                        !.st = NoState, !.errors = @ + 1,
                        !.failed = @ \cup {sw.cur}]
    /\ UNCHANGED <<dbVars, redisVars, lkVars, queueVars, api, outVars>>

\* An awaited call inside the per-session try block rejects: the error is
\* counted and the loop goes on with the next session (failed: the sessions
\* whose iteration was left this way).
SweepThrows ==
    /\ sw.pc \in {"mark", "markUpdate", "setState", "publish"}
    /\ sw' = [sw EXCEPT !.pc = "next", !.cur = NULL, !.sids = <<>>, !.row = 0,
                        !.st = NoState, !.errors = @ + 1,
                        !.failed = @ \cup {sw.cur}]
    /\ UNCHANGED <<dbVars, redisVars, lkVars, queueVars, api, outVars>>

\* listRooms rejects: the outer catch counts the error and returns.
SweepAborts ==
    /\ sw.pc = "listRooms"
    /\ sw' = [sw EXCEPT !.pc = "done", !.errors = @ + 1, !.fatal = TRUE]
    /\ UNCHANGED <<dbVars, redisVars, lkVars, queueVars, api, outVars>>

\* ------------------------------------------------------------ specifications

\* User u creates session s without a failure.
CreateOk(c, s, u) ==
    \/ CreateInsert(c, s, u)
    \/ CreateRoom(c)
    \/ CreateSetLive(c)
    \/ CreateInitState(c)

\* User u joins session s as a viewer.
Join(c, s, u) ==
    \/ JoinGet(c, s, u, "VIEWER")
    \/ JoinCheckActive(c)
    \/ JoinCreate(c)

\* User u leaves session s through the API.
Leave(c, s, u) ==
    \/ LeaveGet(c, s, u)
    \/ LeaveGetActive(c)
    \/ LeaveMarkFind(c)
    \/ LeaveMarkUpdate(c)
    \/ LeaveGetState(c)
    \/ LeaveSetState(c)
    \/ LeaveBroadcast(c)

\* The receiver and the workers' steps 1 and 2 for the notifications hooks.
Ingest(workers, hooks) ==
    \/ \E h \in hooks : Receive(h)
    \/ \E w \in workers, h \in hooks : Take(w, h)
    \/ \E w \in workers : Check(w)
    \/ \E w \in workers : Record(w)

\* Anybody posts one of bodies to the receiver; only the media service can
\* sign a notification, and it signs those it has a reason to send.
Posts(bodies) ==
    \E b \in bodies, signed \in BOOLEAN, r \in {"throws", "event", "promise"},
       up \in BOOLEAN :
        /\ (signed /\ b \in HookIds) => Sendable(b)
        /\ Post(b, signed, r, up)

\* A client subscribes to the events of session s on connection k.
Subscribe(k, s) ==
    \/ SSERequest(k, s)
    \/ SSERegister(k)
    \/ SSESubscribed(k)
    \/ SSEState(k)

HandleJoined(workers) ==
    \/ \E w \in workers : PJFind(w)
    \/ \E w \in workers : PJUpdate(w)
    \/ \E w \in workers : PJGetState(w)
    \/ \E w \in workers : PJSetState(w)
    \/ \E w \in workers : PJBroadcast(w)

HandleLeft(workers) ==
    \/ \E w \in workers : PLFind(w)
    \/ \E w \in workers : PLUpdate(w)
    \/ \E w \in workers : PLGetState(w)
    \/ \E w \in workers : PLSetState(w)
    \/ \E w \in workers : PLBroadcast(w)

HandleStarted(workers) ==
    \/ \E w \in workers : RSGetState(w)
    \/ \E w \in workers : RSPublish(w)

HandleFinished(workers) ==
    \/ \E w \in workers : RFList(w)
    \/ \E w \in workers : RFMarkFind(w)
    \/ \E w \in workers : RFMarkUpdate(w)
    \/ \E w \in workers : RFGetState(w)
    \/ \E w \in workers : RFSetEnded(w)
    \/ \E w \in workers : RFPublish(w)
    \/ \E w \in workers : RFClose(w)

\* Session creation and deletion by its owner and by another user, with
\* failures of creation, next to the room_started notification and the
\* reconciliation job.
NextLifecycle ==
    \/ \E c \in Calls, u \in Users : CreateInsert(c, "s1", u)
    \/ \E c \in Calls : CreateRoom(c)
    \/ \E c \in Calls : CreateSetLive(c)
    \/ \E c \in Calls : CreateInitState(c)
    \/ \E c \in Calls : CreateThrows(c)
    \/ \E c \in Calls : CreateSetError(c)
    \/ \E c \in Calls, u \in Users : DeleteGet(c, "s1", u)
    \/ \E c \in Calls : DeleteRoom(c)
    \/ \E c \in Calls : DeleteSetEnded(c)
    \/ LKRoomCloses("s1")
    \/ Ingest({"w1"}, {"rs1"})
    \/ HandleStarted({"w1"})
    \/ SweepStart
    \/ SweepListRooms
    \/ SweepNext
    \/ SweepSetEnded
    \/ SweepGetState
    \/ SweepSetState
    \/ SweepPublish
    \/ SweepClose

SpecLifecycle == Init /\ [][NextLifecycle]_vars

\* One notification, two workers, and a job lock that may lapse.
NextDedup ==
    \/ CreateOk("c1", "s1", "u1")
    \/ Join("c1", "s1", "u1")
    \/ LKConnect("PA_1")
    \/ Ingest(Workers, {"pj1"})
    \/ QueueEvict("pj1")
    \/ JobStalled("pj1")
    \/ HandleJoined(Workers)

SpecDedup == Init /\ [][NextDedup]_vars

\* One notification that may be delivered again, the hourly cleanup and the
\* ledger's clock.
NextLedger ==
    \/ CreateOk("c1", "s1", "u1")
    \/ Join("c1", "s1", "u1")
    \/ LKConnect("PA_1")
    \/ Ingest(Workers, {"pj1"})
    \/ QueueEvict("pj1")
    \/ JobStalled("pj1")
    \/ HandleJoined(Workers)
    \/ cleanupOldWebhooks
    \/ CleanupThrows
    \/ TickHour

SpecLedger == Init /\ [][NextLedger]_vars

\* One notification, one worker, and store calls that may reject.
NextRetry ==
    \/ CreateOk("c1", "s1", "u1")
    \/ Join("c1", "s1", "u1")
    \/ LKConnect("PA_1")
    \/ Ingest({"w1"}, {"pj1"})
    \/ WorkerThrows("w1")
    \/ HandleJoined({"w1"})

SpecRetry == Init /\ [][NextRetry]_vars

\* Two join requests of the same user for the same session.
NextJoin ==
    \/ CreateOk("c1", "s1", "u1")
    \/ \E c \in Calls, u \in Users : Join(c, "s1", u)

SpecJoin == Init /\ [][NextJoin]_vars

\* A user who joins, leaves and joins again: two participant sessions.
NextTokens ==
    \/ CreateOk("c1", "s1", "u1")
    \/ Join("c1", "s1", "u1")
    \/ Leave("c1", "s1", "u1")
    \/ \E t \in Sids : LKConnect(t)
    \/ \E t \in Sids : LKDisconnect(t)
    \/ Ingest({"w1"}, {"pj1", "pl1", "pj2", "pl2"})
    \/ HandleJoined({"w1"})
    \/ HandleLeft({"w1"})

SpecTokens == Init /\ [][NextTokens]_vars

\* The two notifications of one participant session, in any order.
NextOrder ==
    \/ CreateOk("c1", "s1", "u1")
    \/ Join("c1", "s1", "u1")
    \/ LKConnect("PA_1")
    \/ LKDisconnect("PA_1")
    \/ Ingest({"w1"}, {"pj1", "pl1"})
    \/ HandleJoined({"w1"})
    \/ HandleLeft({"w1"})

SpecOrder == Init /\ [][NextOrder]_vars

\* A room that closes while participants are joined.
NextFinish ==
    \/ CreateOk("c1", "s1", "u1")
    \/ Join("c1", "s1", "u1")
    \/ LKConnect("PA_1")
    \/ LKRoomCloses("s1")
    \/ Ingest({"w1"}, {"pj1", "rf1"})
    \/ HandleJoined({"w1"})
    \/ HandleFinished({"w1"})

SpecFinish == Init /\ [][NextFinish]_vars

\* Two sessions, one with a confirmed participant, rooms that close and the
\* reconciliation job.
NextSweep ==
    \/ \E s \in Streams : CreateOk("c1", s, "u1")
    \/ \E s \in Streams : Join("c1", s, "u1")
    \/ LKConnect("PA_1")
    \/ Ingest({"w1"}, {"pj1"})
    \/ HandleJoined({"w1"})
    \/ \E s \in Streams : LKRoomCloses(s)
    \/ SweepStart
    \/ SweepListRooms
    \/ SweepNext
    \/ SweepMarkFind
    \/ SweepMarkUpdate
    \/ SweepSetEnded
    \/ SweepGetState
    \/ SweepSetState
    \/ SweepPublish
    \/ SweepClose
    \/ SweepThrows
    \/ SweepAborts

SpecSweep == Init /\ [][NextSweep]_vars

\* Every kind of notification for one session.
NextHooks ==
    \/ CreateOk("c1", "s1", "u1")
    \/ Join("c1", "s1", "u1")
    \/ LKConnect("PA_1")
    \/ LKDisconnect("PA_1")
    \/ LKRoomCloses("s1")
    \/ Ingest({"w1"}, {"rs1", "pj1", "pl1", "rf1"})
    \/ HandleStarted({"w1"})
    \/ HandleJoined({"w1"})
    \/ HandleLeft({"w1"})
    \/ HandleFinished({"w1"})

SpecHooks == Init /\ [][NextHooks]_vars

\* The receiver under requests of any sender, next to one session's creation
\* and the processing of its room_started notification.
NextReceiver ==
    \/ CreateOk("c1", "s1", "u1")
    \/ Posts({"rs1", "garbage", "nonbuffer"})
    \/ Take("w1", "rs1")
    \/ Check("w1")
    \/ Record("w1")
    \/ HandleStarted({"w1"})

SpecReceiver == Init /\ [][NextReceiver]_vars

\* The same, with a worker that goes on with a job the queue holds: the
\* worker polls the queue and every awaited call of its processor settles.
\* Every step of a worker moves its position.
position == [w \in Workers |-> wk[w].pc]

SpecAcked ==
    /\ Init
    /\ [][NextReceiver]_vars
    /\ WF_position(Take("w1", "rs1"))
    /\ WF_position(Check("w1"))
    /\ WF_position(Record("w1"))
    /\ WF_position(HandleStarted({"w1"}))

\* A user who joins, leaves and joins again a session that has an audience,
\* while time passes.
NextThrottle ==
    \/ Join("c1", "s1", "u1")
    \/ \E t \in Sids : LKConnect(t)
    \/ \E t \in Sids : LKDisconnect(t)
    \/ Ingest({"w1"}, {"pj1", "pl1", "pj2", "pl2"})
    \/ HandleJoined({"w1"})
    \/ HandleLeft({"w1"})
    \/ Tick

SpecThrottle == InitThrottle /\ [][NextThrottle]_vars

\* Two subscribers of a session that is created, started and finished.
NextFanout ==
    \/ CreateOk("c1", "s1", "u1")
    \/ \E k \in Conns : Subscribe(k, "s1")
    \/ LKRoomCloses("s1")
    \/ Ingest({"w1"}, {"rs1", "rf1"})
    \/ HandleStarted({"w1"})
    \/ RFList("w1")
    \/ RFGetState("w1")
    \/ RFSetEnded("w1")
    \/ RFPublish("w1")
    \/ RFClose("w1")
    \/ Deliver
    \/ Unsubscribed("s1")

SpecFanout == Init /\ [][NextFanout]_vars

\* Subscribers that come and go while the session is created and finished.
NextSubscribers ==
    \/ CreateOk("c1", "s1", "u1")
    \/ \E k \in Conns : Subscribe(k, "s1")
    \/ \E k \in Conns : ClientClose(k)
    \/ LKRoomCloses("s1")
    \/ Ingest({"w1"}, {"rf1"})
    \/ RFList("w1")
    \/ RFGetState("w1")
    \/ RFSetEnded("w1")
    \/ RFPublish("w1")
    \/ RFClose("w1")
    \/ Deliver
    \/ Unsubscribed("s1")

SpecSubscribers == Init /\ [][NextSubscribers]_vars

\* The three ways a session ends: its owner deletes it, its room finishes,
\* the reconciliation job finds its room gone; one subscriber listens.
NextEnding ==
    \/ CreateOk("c1", "s1", "u1")
    \/ DeleteGet("c2", "s1", "u1")
    \/ DeleteRoom("c2")
    \/ DeleteRoomFails("c2")
    \/ DeleteSetEnded("c2")
    \/ Subscribe("k1", "s1")
    \/ LKRoomCloses("s1")
    \/ Ingest({"w1"}, {"rf1"})
    \/ RFList("w1")
    \/ RFGetState("w1")
    \/ RFSetEnded("w1")
    \/ RFPublish("w1")
    \/ RFClose("w1")
    \/ SweepStart
    \/ SweepListRooms
    \/ SweepNext
    \/ SweepSetEnded
    \/ SweepGetState
    \/ SweepSetState
    \/ SweepPublish
    \/ SweepClose
    \/ Deliver
    \/ Unsubscribed("s1")

SpecEnding == Init /\ [][NextEnding]_vars

\* Create requests with every proposed room name.
RoomNames == UNION {[1 .. n -> Chars] : n \in 0 .. MaxNameLen}

NextNames ==
    \/ \E name \in RoomNames : CreateNamed("c1", "s1", "u1", name)
    \/ CreateRoom("c1")
    \/ CreateSetLive("c1")
    \/ CreateInitState("c1")

SpecNames == Init /\ [][NextNames]_vars

\* No call, no handler and no job is under way.
Settled ==
    /\ \A c \in Calls : api[c].pc = "idle"
    /\ \A w \in Workers : wk[w].pc = "idle"
    /\ \A h \in HookIds : jobs[h].state \notin {"waiting", "active"}

\* One pass through the life of a viewer, each step taken when the one
\* before is over: the session is created, room_started arrives, u1 joins
\* through the API, connects (participant_joined), disconnects
\* (participant_left); a subscriber may watch the session's events.
StartedArrives == Settled /\ streamState["s1"].status = "LIVE" /\ Receive("rs1")

ViewerJoins(c) ==
    /\ Settled /\ jobs["rs1"].state = "completed" /\ participants = <<>>
    /\ JoinGet(c, "s1", "u1", "VIEWER")

ViewerConnects == Settled /\ LKConnect("PA_1")

JoinedArrives == Settled /\ Receive("pj1")

ViewerDisconnects ==
    Settled /\ jobs["pj1"].state = "completed" /\ LKDisconnect("PA_1")

LeftArrives == Settled /\ Receive("pl1")

NextScenario ==
    \/ \E c \in Calls : CreateInsert(c, "s1", "u1")
    \/ \E c \in Calls : CreateRoom(c)
    \/ \E c \in Calls : CreateSetLive(c)
    \/ \E c \in Calls : CreateInitState(c)
    \/ StartedArrives
    \/ \E c \in Calls : ViewerJoins(c)
    \/ \E c \in Calls : JoinCheckActive(c)
    \/ \E c \in Calls : JoinCreate(c)
    \/ ViewerConnects
    \/ JoinedArrives
    \/ ViewerDisconnects
    \/ LeftArrives
    \/ \E w \in Workers, h \in {"rs1", "pj1", "pl1"} : Take(w, h)
    \/ \E w \in Workers : Check(w)
    \/ \E w \in Workers : Record(w)
    \/ HandleStarted(Workers)
    \/ HandleJoined(Workers)
    \/ HandleLeft(Workers)
    \/ Subscribe("k1", "s1")
    \/ Deliver

SpecScenario == Init /\ [][NextScenario]_vars

\* The creator and another user join session s1 of u1 as HOST and as VIEWER.
Roles == {"HOST", "VIEWER"}

NextHost ==
    \/ CreateOk("c1", "s1", "u1")
    \/ \E c \in Calls, u \in Users, role \in Roles : JoinGet(c, "s1", u, role)
    \/ \E c \in Calls : JoinCheckActive(c)
    \/ \E c \in Calls : JoinCreate(c)

SpecHost == Init /\ [][NextHost]_vars

\* u1 joins s1 and connects twice with the token of the join; the two
\* participant_joined notifications are processed by two workers.
NextAttach ==
    \/ CreateOk("c1", "s1", "u1")
    \/ Join("c1", "s1", "u1")
    \/ \E t \in Sids : LKConnect(t)
    \/ Ingest(Workers, {"pj1", "pj2"})
    \/ HandleJoined(Workers)

SpecAttach == Init /\ [][NextAttach]_vars

\* u1 and u2 join s1 and connect; the notifications of the two participants
\* are processed by two workers.
NextPair ==
    \/ CreateOk("c1", "s1", "u1")
    \/ \E u \in Users : Join("c1", "s1", u)
    \/ LKConnect("PA_1") \/ LKConnect("PA_3")
    \/ Ingest(Workers, {"pj1", "pj3"})
    \/ HandleJoined(Workers)

SpecPair == Init /\ [][NextPair]_vars

\* As NextPair, and u1 disconnects: its participant_left is processed next
\* to the participant_joined of u2.
NextChurn ==
    \/ CreateOk("c1", "s1", "u1")
    \/ \E u \in Users : Join("c1", "s1", u)
    \/ LKConnect("PA_1") \/ LKConnect("PA_3")
    \/ LKDisconnect("PA_1")
    \/ Ingest(Workers, {"pj1", "pj3", "pl1"})
    \/ HandleJoined(Workers)
    \/ HandleLeft(Workers)

SpecChurn == Init /\ [][NextChurn]_vars

\* u1 creates s1 and deletes it while a join of u1 is served by another
\* call and the participant_joined notification is processed.
NextLeftovers ==
    \/ CreateOk("c1", "s1", "u1")
    \/ Join("c2", "s1", "u1")
    \/ LKConnect("PA_1")
    \/ Ingest({"w1"}, {"pj1"})
    \/ HandleJoined({"w1"})
    \/ DeleteGet("c1", "s1", "u1")
    \/ DeleteRoom("c1")
    \/ DeleteSetEnded("c1")

SpecLeftovers == Init /\ [][NextLeftovers]_vars

\* A room with a participant closes and its room_finished notification is
\* sent twice, under two ids.
NextTwice ==
    \/ CreateOk("c1", "s1", "u1")
    \/ Join("c1", "s1", "u1")
    \/ LKConnect("PA_1")
    \/ LKRoomCloses("s1")
    \/ Ingest({"w1"}, {"pj1", "rf1", "rf2"})
    \/ HandleJoined({"w1"})
    \/ HandleFinished({"w1"})

SpecTwice == Init /\ [][NextTwice]_vars

\* ------------------------------------------------------------------ claims

\* Position of x in seq; 0 when absent.
IndexOf(seq, x) ==
    IF Includes(seq, x) THEN CHOOSE i \in DOMAIN seq : seq[i] = x ELSE 0

\* C1: a notification id delivered twice, one after the other or to two
\* workers at once, has its effect applied at most once: handleWebhookEvent
\* returns at most once per id.
C1_AppliedAtMostOnce ==
    \A h \in HookIds : applied[h] <= 1

\* C2: no (session, user) pair ever has more than one participant row with
\* status JOINED, concurrent joins included.
C2_OneJoinedRow ==
    \A s \in Streams, u \in Users :
        Cardinality(getActiveParticipant(participants, u, s)) <= 1

\* C3: a step of a worker that processes a participant_left notification
\* carrying sid T changes no participant row whose sid is not T; so the row
\* of the user's later participant session stays JOINED.
C3_StaleLeaveKeepsOtherRows ==
    [][\A w \in Workers :
          (/\ wk[w].job # NULL
           /\ Job(w).event = "participant_left"
           /\ wk'[w] # wk[w])
          => /\ Len(participants') = Len(participants)
             /\ \A i \in DOMAIN participants :
                    participants[i].sid # Job(w).sid
                    => participants'[i] = participants[i]]_vars

\* The user left the session of PA_1 and joined again as PA_2; the
\* participant_left of PA_1 was processed after the participant_joined of
\* PA_2, and the row of PA_2 is JOINED.
C3_StaleLeaveProcessed ==
    /\ applied["pl1"] >= 1
    /\ applied["pj2"] >= 1
    /\ IndexOf(webhookEvents, "pj2") > 0
    /\ IndexOf(webhookEvents, "pj2") < IndexOf(webhookEvents, "pl1")
    /\ \E i, j \in DOMAIN participants :
          /\ participants[i].sid = "PA_1" /\ participants[i].status = "LEFT"
          /\ participants[j].sid = "PA_2" /\ participants[j].status = "JOINED"

\* C4: once the room_finished notification of a session has been
\* processed, the session's status in the livestreams table is ENDED.
C4_FinishedIsEnded ==
    applied["rf1"] >= 1 => livestreams["s1"].status = "ENDED"

\* C5: when the processing of a session's room_finished notification
\* returns, every participant row the handler listed as JOINED, with or
\* without sid, is LEFT.
C5_FinishedNoJoined ==
    [][\A w \in Workers :
          (/\ wk[w].job # NULL
           /\ Job(w).event = "room_finished"
           /\ applied'[wk[w].job] > applied[wk[w].job])
          => \A k \in DOMAIN wk[w].listed :
                participants'[wk[w].listed[k]].status = "LEFT"]_vars

\* C6: when both notifications of participant session PA_1 have been
\* processed, in whichever order, the row of PA_1 is LEFT and the
\* participant list of the stream state does not hold the user.
C6_EitherOrder ==
    (/\ applied["pj1"] >= 1
     /\ applied["pl1"] >= 1
     /\ \A w \in Workers : wk[w].pc = "idle")
    => /\ \A i \in DOMAIN participants :
              participants[i].sid = "PA_1" => participants[i].status = "LEFT"
       /\ ~Includes(streamState["s1"].participants, "u1")

\* C7: a job is never completed unless handleWebhookEvent has returned
\* normally for its notification.
C7_CompletedIsApplied ==
    \A h \in HookIds : jobs[h].state = "completed" => applied[h] >= 1

C9_ForwardOnly ==
    [][\A s \in Streams :
          /\ livestreams[s].status = "ENDED"
             => livestreams'[s].status \notin {"SCHEDULED", "LIVE"}
          /\ livestreams[s].status = "LIVE"
             => livestreams'[s].status # "SCHEDULED"]_vars

\* C10: a step of the reconciliation job changes the row, the participants
\* and the stream state of no session outside (LIVE sessions listed) minus
\* (rooms listed); and when the job finishes without a counted error, every
\* session of that difference is ENDED.
C10_SweepExact ==
    [][sw' # sw
       => /\ Len(participants') = Len(participants)
          /\ \A s \in Streams \ (sw.live \ sw.rooms) :
                /\ livestreams'[s] = livestreams[s]
                /\ streamState'[s] = streamState[s]
                /\ \A i \in DOMAIN participants :
                      participants[i].livestreamId = s
                      => participants'[i] = participants[i]
          /\ (sw'.pc = "done" /\ sw'.errors = 0)
             => \A s \in sw'.live \ sw'.rooms : livestreams'[s].status = "ENDED"]_vars

\* A sweep listed both sessions LIVE and only the room of s2: it finished
\* without error, s1 is ENDED with its participant LEFT, s2 is LIVE with its
\* participant JOINED.
C10_SweepDone ==
    /\ sw.pc = "done" /\ sw.errors = 0
    /\ sw.live = {"s1", "s2"} /\ sw.rooms = {"s2"}
    /\ livestreams["s1"].status = "ENDED"
    /\ livestreams["s2"].status = "LIVE"
    /\ streamState["s1"].status = "ENDED"
    /\ streamState["s2"].status = "LIVE"
    /\ \E i, j \in DOMAIN participants :
          /\ participants[i].livestreamId = "s1" /\ participants[i].status = "LEFT"
          /\ participants[j].livestreamId = "s2" /\ participants[j].status = "JOINED"

\* C11: when the reconciliation job sets a stale session to ENDED, every
\* participant row it listed as JOINED for that session, with or without
\* sid, is LEFT.
C11_SweptNoJoined ==
    [][sw'.ended # sw.ended
       => \A k \in DOMAIN sw.listed :
             participants'[sw.listed[k]].status = "LEFT"]_vars

C13_ProcessedIsSkipped ==
    [][\A w \in Workers :
          (/\ wk[w].pc = "check"
           /\ Includes(webhookEvents, wk[w].job)
           /\ wk'[w] # wk[w])
          => /\ wk'[w].pc = "idle"
             /\ invoked' = invoked /\ applied' = applied
             /\ livestreams' = livestreams
             /\ participants' = participants
             /\ webhookEvents' = webhookEvents
             /\ streamState' = streamState
             /\ jobs[wk[w].job].owner = w
                => jobs'[wk[w].job].state = "completed"]_vars

\* A job was handed out twice and is completed; the handler has run once,
\* so one of the two workers skipped it at step 1.
C13_SkippedOnce ==
    /\ jobs["pj1"].state = "completed"
    /\ jobs["pj1"].attemptsMade = 2
    /\ jobs["pj1"].stalled = 1
    /\ invoked["pj1"] = 1
    /\ applied["pj1"] = 1
    /\ \A w \in Workers : wk[w].pc = "idle"
    /\ \E i \in DOMAIN participants : participants[i].sid = "PA_1"

\* C14: a notification whose signature does not verify is answered with 401
\* and is not handed to the queue.
C14_UnsignedRejected ==
    \A x \in http :
        (~x.signed /\ x.body # "nonbuffer") => (x.status = 401 /\ ~x.queued)

\* C15: a request whose signature verifies is answered with 200, whatever
\* happens after the verification.
C15_SignedAnswered200 ==
    \A x \in http :
        (x.signed /\ x.body # "nonbuffer") => x.status = 200

\* C16: a correctly signed notification whose body cannot be parsed is
\* answered with 200 and nothing is enqueued for it.
C16_MalformedSwallowed ==
    \A x \in http :
        (x.signed /\ x.body = "garbage") => (x.status = 200 /\ ~x.queued)

\* The viewer-count broadcasts of session s, in the order of their publish.
Broadcasts(s) ==
    SelectSeq(published, LAMBDA e : e.ls = s /\ e.type = "viewer_count_update")

\* The viewer-count changes of session s, in the order of their check.
Changes(s) == SelectSeq(updates, LAMBDA u : u.ls = s)

\* C17: a viewer_count_update that follows another one of its session comes
\* at least 5000 ms after it and carries a count that differs from the count
\* of that one by at least 10% of it or by at least 5 (every count differs
\* enough from a count of 0).
C17_ThrottleRespected ==
    \A s \in Streams :
        LET B == Broadcasts(s)
        IN \A i \in 1 .. Len(B) - 1 :
              LET countDelta == Abs(B[i + 1].count - B[i].count)
              IN /\ B[i + 1].time - B[i].time >= VIEWER_COUNT_THROTTLE_MS
                 /\ \/ B[i].count = 0
                    \/ 100 * countDelta >= VIEWER_COUNT_THRESHOLD_PERCENT * B[i].count
                    \/ countDelta >= VIEWER_COUNT_THRESHOLD_ABSOLUTE

\* C17 witness: after the broadcast of 10 viewers a change to 9, exactly 10%
\* of it, was broadcast once the waiting time was over, and a change before
\* that was held back.
C17_SecondBroadcast ==
    LET B == Broadcasts("s1")
    IN /\ Len(B) >= 2
       /\ B[1].count = 10 /\ B[2].count = 9
       /\ \E k \in DOMAIN updates : ~updates[k].sent /\ updates[k].time < B[2].time

\* Changes i .. j of U follow one another in less than 5000 ms, each with a
\* delta below 10% of the count before it and below 5.
Burst(U, i, j) ==
    /\ i < j
    /\ \A k \in i + 1 .. j :
          LET countDelta == Abs(U[k].count - U[k - 1].count)
          IN /\ U[k].time - U[k - 1].time < VIEWER_COUNT_THROTTLE_MS
             /\ 100 * countDelta < VIEWER_COUNT_THRESHOLD_PERCENT * U[k - 1].count
             /\ countDelta < VIEWER_COUNT_THRESHOLD_ABSOLUTE

Sent(U, i, j) == {k \in i .. j : U[k].sent}

Published(s, type) ==
    SelectSeq(published, LAMBDA e : e.ls = s /\ e.type = type)

\* C19: every run of the handler of a room_started or room_finished
\* notification that returns normally has published room_started
\* respectively room_ended on the channel of its session.
C19_LifecyclePublished ==
    /\ applied["rs1"] <= Len(Published(Payload("rs1").room, "room_started"))
    /\ applied["rf1"] <= Len(Published(Payload("rf1").room, "room_ended"))

\* C20: the first event written to a subscriber's connection is its state
\* event.
C20_StateFirst ==
    \A k \in Conns : sse[k].out # <<>> => sse[k].out[1] = "state"

\* C21: a connection that had completed its subscription before room_ended
\* was published, and whose client is still there, has been sent room_ended
\* when the server ends its response.
C21_EndedBeforeClose ==
    [][\A k \in Conns :
          ( /\ sse'[k].ended /\ ~sse[k].ended
            /\ sse[k].open /\ sse[k].pc = "open"
            /\ \E i \in sse[k].at + 1 .. Len(published) :
                  published[i].ls = sse[k].ls /\ published[i].type = "room_ended" )
          => Includes(sse[k].out, "room_ended")]_vars

\* C22: with no subscribe and no unsubscribe call of a session in flight,
\* Redis serves the session's channel to the process exactly when the list
\* of the session's connections is not empty.
C22_SubscribedIffConnections ==
    \A s \in Streams :
        ( /\ unsubscribing[s] = 0
          /\ \A k \in Conns : ~(sse[k].ls = s /\ sse[k].pc = "subscribe") )
        => (s \in redisSub <=> sseConnections[s] # <<>>)

\* Nothing that concerns session s is in progress: no request, no job, no
\* sweep, no message on its way, and the room_finished notification of a
\* closed room has been processed.
Quiet(s) ==
    /\ \A c \in Calls : api[c].pc = "idle"
    /\ \A w \in Workers : wk[w].pc = "idle"
    /\ sw.pc \in {"idle", "done"}
    /\ \A h \in HookIds : jobs[h].state \notin {"waiting", "active"}
    /\ \A h \in HookIds :
          (Payload(h).room = s /\ Payload(h).event = "room_finished" /\ Sendable(h))
          => jobs[h].state = "completed"
    /\ inbox = <<>>
    /\ unsubscribing[s] = 0

\* C23: once a session is ended and the work on it is over, its state is
\* marked ended, room_ended was published on its channel and it has no
\* subscriber connection left.
C23_EndedTornDown ==
    \A s \in Streams :
        (livestreams[s].status = "ENDED" /\ Quiet(s))
        => /\ streamState[s].status = "ENDED"
           /\ Published(s, "room_ended") # <<>>
           /\ sseConnections[s] = <<>>

\* viewerCount, totalViewers and peakViewerCount of a state.
Counters(st) == <<st.viewerCount, st.totalViewers, st.peakViewerCount>>

\* The other one of the two room_finished notifications of room s1.
Twin(h) == IF h = "rf1" THEN "rf2" ELSE "rf1"

\* C24: neither of two room_finished notifications of one room fails, the
\* session is ENDED once either of them has been processed, and the one
\* processed second changes no participant row and no counter of the state.
C24_FinishedTwice ==
    /\ [](\A h \in {"rf1", "rf2"} :
            /\ jobs[h].state # "failed" /\ jobs[h].attemptsMade <= 1
            /\ applied[h] >= 1 => livestreams[Payload(h).room].status = "ENDED")
    /\ [][\A w \in Workers :
            ( /\ wk[w].job \in {"rf1", "rf2"}
              /\ applied[Twin(wk[w].job)] >= 1
              /\ wk'[w] # wk[w] )
            => /\ participants' = participants
               /\ Counters(streamState'["s1"]) = Counters(streamState["s1"])]_vars

\* C25: deleteLivestream by a user who is not the creator changes no row and
\* leaves the media room alone: it answers AuthorizationError while the
\* session is not ended and returns the session as it is once it is ended;
\* and every delete that goes on to close the room and to write ENDED is the
\* creator's.
C25_NonOwnerDelete ==
    /\ [](\A c \in Calls :
            api[c].op = "delete" => api[c].user = livestreams[api[c].ls].createdBy)
    /\ [][\A c \in Calls, u \in Users :
            ( /\ livestreams["s1"].status # "NONE"
              /\ u # livestreams["s1"].createdBy
              /\ DeleteGet(c, "s1", u) )
            => /\ livestreams' = livestreams
               /\ lkRoom' = lkRoom
               /\ api'[c].pc = "idle"
               /\ api'[c].res = IF livestreams["s1"].status = "ENDED"
                                THEN "ok" ELSE "AuthorizationError"]_vars

\* A delete by another user than the creator was refused while the session
\* was live, and the session is still live with its room open.
C25_Refused ==
    \E c \in Calls :
        /\ api[c].res = "AuthorizationError"
        /\ livestreams["s1"].status = "LIVE"
        /\ lkRoom["s1"] = "open"

\* C26: when createLivestream returns, either the room was not created and
\* then the row is ERROR, the session has no state and the caller gets the
\* error, or the room was created and then the row is LIVE, the state is
\* initialised and the caller gets the session.
C26_CreateOutcome ==
    [][\A c \in Calls :
          ( api[c].op = "create" /\ api[c].pc # "idle" /\ api'[c].pc = "idle" )
          => LET s == api[c].ls
             IN IF lkRoom[s] = "none"
                THEN /\ livestreams'[s].status = "ERROR"
                     /\ streamState'[s] = NoState
                     /\ api'[c].res = "error"
                ELSE /\ livestreams'[s].status = "LIVE"
                     /\ streamState'[s].status = "LIVE"
                     /\ api'[c].res = "ok"]_vars

\* C27: the room name of every stored session is not empty, is made of
\* lower case letters, digits, hyphens and underscores, repeats no separator
\* and neither starts nor ends with a separator.
C27_RoomNameClean ==
    \A s \in Streams :
        livestreams[s].status # "NONE"
        => LET name == livestreams[s].roomName
           IN /\ name # <<>>
              /\ \A i \in DOMAIN name : name[i] \in Lower \cup Digits \cup Separators
              /\ \A i \in 1 .. Len(name) - 1 :
                    ~(name[i] \in Separators /\ name[i + 1] = name[i])
              /\ name[1] \notin Separators
              /\ name[Len(name)] \notin Separators

\* C28: in the one-pass scenario, the row of the join call is JOINED without
\* sid until participant_joined is received; once participant_joined is
\* processed the row carries the sid and viewerCount is 1; once
\* participant_left with that sid is processed the row is LEFT and
\* viewerCount is 0.
C28_Scenario ==
    /\ (participants # <<>> /\ jobs["pj1"].state = "none")
       => /\ Len(participants) = 1
          /\ participants[1].status = "JOINED"
          /\ participants[1].sid = NULL
    /\ (jobs["pj1"].state = "completed" /\ jobs["pl1"].state = "none")
       => /\ Len(participants) = 1
          /\ participants[1].status = "JOINED"
          /\ participants[1].sid = "PA_1"
          /\ streamState["s1"].viewerCount = 1
    /\ jobs["pl1"].state = "completed"
       => /\ Len(participants) = 1
          /\ participants[1].status = "LEFT"
          /\ participants[1].sid = "PA_1"
          /\ streamState["s1"].viewerCount = 0

\* The scenario was run to its end.
C28_ScenarioDone ==
    /\ jobs["rs1"].state = "completed"
    /\ jobs["pj1"].state = "completed"
    /\ jobs["pl1"].state = "completed"
    /\ participants # <<>> /\ participants[1].status = "LEFT"

JoinedUsers(s) ==
    {participants[i].userId : i \in {j \in DOMAIN participants :
                                        participants[j].livestreamId = s}}

\* C30: totalViewers of a session's state counts each user that joined the
\* session once: it never exceeds the number of distinct users with a
\* participant row of the session, however often they left and came back.
C30_TotalViewersDistinct ==
    \A s \in Streams :
        streamState[s].status # "NONE"
        => streamState[s].totalViewers <= Cardinality(JoinedUsers(s))

\* C31: a sweep that got the list of rooms goes through all its stale
\* sessions whatever fails on the way: when it returns, every stale session
\* either was set ENDED by it or is one whose reconciliation failed, and the
\* error count of the summary is the number of the latter.
C31_SweepGoesOn ==
    (sw.pc = "done" /\ ~sw.fatal)
    => /\ \A s \in sw.live \ sw.rooms : s \in sw.ended \/ s \in sw.failed
       /\ sw.failed \subseteq sw.live \ sw.rooms
       /\ sw.errors = Cardinality(sw.failed)

\* A sweep found both sessions stale, failed on one of them and ended the
\* other one.
C31_OneFailedOneEnded ==
    /\ sw.pc = "done" /\ ~sw.fatal
    /\ sw.live \ sw.rooms = {"s1", "s2"}
    /\ sw.errors = 1
    /\ \E s \in Streams :
          /\ sw.failed = {s} /\ livestreams[s].status = "LIVE"
          /\ sw.ended = Streams \ {s}
          /\ livestreams[CHOOSE x \in Streams : x # s].status = "ENDED"

\* C32: the sid of a participant row, once set, is never replaced by
\* another one.
C32_SidWrittenOnce ==
    [][\A i \in DOMAIN participants :
          participants[i].sid # NULL
          => participants'[i].sid = participants[i].sid]_vars

\* C33: each markParticipantAsLeftBySid that reports an update (its update
\* step) finds the row JOINED, so one sid has at most one operation that
\* reports true whoever runs it (participant_left, room_finished, the sweep,
\* the leave API); and a row that is LEFT stays LEFT.
C33_MarkedLeftOnce ==
    [][/\ \A w \in Workers :
            ( wk[w].pc \in {"pl_update", "rf_update"}
              /\ wk'[w].pc \in {"pl_get", "rf_loop"} )
            => participants[wk[w].row].status = "JOINED"
       /\ \A c \in Calls :
            ( api[c].op = "leave" /\ api[c].pc = "markUpdate"
              /\ api'[c].pc = "getState" )
            => participants[api[c].row].status = "JOINED"
       /\ (sw.pc = "markUpdate" /\ sw'.pc = "mark")
            => participants[sw.row].status = "JOINED"
       /\ \A i \in DOMAIN participants :
            participants[i].status = "LEFT" => participants'[i].status = "LEFT"]_vars

\* The operations that have read the state of session s and have not yet
\* written it back.
Mutating(s) ==
    {w \in Workers : wk[w].pc \in {"pj_set", "pl_set", "re_set"} /\ Job(w).room = s}
    \cup {c \in Calls : api[c].op = "leave" /\ api[c].pc = "setState" /\ api[c].ls = s}
    \cup (IF sw.pc = "setState" /\ sw.cur = s THEN {"sweep"} ELSE {})

\* C34: at most one read-modify-write of the state of a session is under
\* way at any time.
C34_OneMutationInFlight ==
    \A s \in Streams : Cardinality(Mutating(s)) <= 1

\* The users with a JOINED row of session s that carries a sid.
ConfirmedUsers(s) ==
    {participants[i].userId : i \in {j \in DOMAIN participants :
                                        /\ participants[j].livestreamId = s
                                        /\ participants[j].status = "JOINED"
                                        /\ participants[j].sid # NULL}}

\* C35: while no call, no job and no sweep is under way, the participant
\* list of the state of a LIVE session holds the users with a JOINED row
\* with sid, each once, and viewerCount is their number.
C35_StateMatchesRows ==
    \A s \in Streams :
        ( /\ Settled /\ sw.pc \in {"idle", "done"}
          /\ livestreams[s].status = "LIVE"
          /\ streamState[s].status = "LIVE" )
        => /\ {streamState[s].participants[i] :
                    i \in DOMAIN streamState[s].participants} = ConfirmedUsers(s)
           /\ Len(streamState[s].participants) = Cardinality(ConfirmedUsers(s))
           /\ streamState[s].viewerCount = Cardinality(ConfirmedUsers(s))

\* C36: in every stored state the participant list repeats no user,
\* viewerCount is the length of the list, peakViewerCount >= viewerCount and
\* totalViewers >= peakViewerCount; and no step lowers totalViewers or
\* peakViewerCount of a session.
C36_CountersSound ==
    /\ [](\A s \in Streams :
            LET st == streamState[s]
            IN /\ \A i, j \in DOMAIN st.participants :
                    st.participants[i] = st.participants[j] => i = j
               /\ st.viewerCount = Len(st.participants)
               /\ st.peakViewerCount >= st.viewerCount
               /\ st.totalViewers >= st.peakViewerCount)
    /\ [][\A s \in Streams :
            /\ streamState'[s].totalViewers >= streamState[s].totalViewers
            /\ streamState'[s].peakViewerCount >= streamState[s].peakViewerCount]_vars

\* C37: a session in status ERROR has no open room at the media service.
C37_ErrorHasNoRoom ==
    \A s \in Streams : livestreams[s].status = "ERROR" => lkRoom[s] # "open"

\* C38: once the call that set a session ENDED has returned, the session
\* has no JOINED participant row, then and later.
C38_EndedNoJoined ==
    \A s \in Streams :
        ( /\ livestreams[s].status = "ENDED"
          /\ \A c \in Calls : api[c].op # "delete" )
        => \A i \in DOMAIN participants :
              participants[i].livestreamId = s => participants[i].status # "JOINED"

\* C39: the ledger cleanup deletes only rows whose expiry, 24 hours after
\* the insert, has passed, and returns the number it deleted; and no
\* notification id is applied a second time within 24 hours of its first
\* processing.
C39_LedgerHoldsADay ==
    /\ [][webhookEvents' # webhookEvents /\ processedAt' = processedAt
            => /\ \A h \in HookIds :
                     Includes(webhookEvents, h) /\ ~Includes(webhookEvents', h)
                         => expiresAt(h) < hour
               /\ deletedCount' = Len(webhookEvents) - Len(webhookEvents')]_vars
    /\ [][\A h \in HookIds :
              applied[h] >= 1 /\ applied'[h] > applied[h]
                  => hour > processedAt[h][1] + WEBHOOK_TTL_HOURS]_vars

\* The cleanup half of C39 alone.
C39_CleanupOnlyExpired ==
    [][webhookEvents' # webhookEvents /\ processedAt' = processedAt
          => /\ \A h \in HookIds :
                   Includes(webhookEvents, h) /\ ~Includes(webhookEvents', h)
                       => expiresAt(h) < hour
             /\ deletedCount' = Len(webhookEvents) - Len(webhookEvents')]_vars

\* A cleanup has deleted the expired row of a processed notification.
C39_RowExpiredAndGone ==
    /\ processedAt["pj1"] # <<>>
    /\ ~Includes(webhookEvents, "pj1")
    /\ deletedCount = 1

\* The receiver has answered a request carrying h, signed by the media
\* service, with 200.
Acked(h) == \E x \in http : x.body = h /\ x.signed /\ x.status = 200

\* C40: a signed notification is acknowledged with 200 only once it is in
\* the queue, and every acknowledged notification is eventually applied by
\* the worker or kept in the queue's failed list.
C40_AckedIsNeverLost ==
    /\ [](\A x \in http :
              x.signed /\ x.body \in HookIds /\ x.status = 200 => x.queued)
    /\ \A h \in HookIds :
          Acked(h) ~> (applied[h] >= 1 \/ jobs[h].state = "failed")

\* The second half of C40 alone: what is acknowledged is applied or failed
\* in the end.
C40_AckedLeadsToOutcome ==
    \A h \in HookIds : Acked(h) ~> (applied[h] >= 1 \/ jobs[h].state = "failed")

\* The first half of C40 alone: a 200 for a signed notification means the
\* queue took it.
C40_AckedMeansQueued ==
    \A x \in http : x.signed /\ x.body \in HookIds /\ x.status = 200 => x.queued

====
